---- MODULE Spec2Model ----
(***************************************************************************)
(* Healthcare appointment booking backend (main.py, schemas.py,           *)
(* database.py, chatbot_service.py).                                      *)
(*                                                                         *)
(* The store is the two tables of database.py; every HTTP handler of      *)
(* main.py is one action.  Texts that the code converts (strip, lower,    *)
(* strptime) are sequences of one-character strings, so that the          *)
(* conversions are computed and not assumed.                              *)
(***************************************************************************)
EXTENDS Integers, Sequences, FiniteSets, TLC

(***************************************************************************)
(* Bounds of the model.                                                    *)
(***************************************************************************)
MaxDoctors == 2
MaxAppointments == 2
\* Booking requests in flight at the same time
MaxTasks == 2
\* Messages appended to one chat session
MaxAppends == 26
\* Messages sent to one chat session while the clock runs
MaxTimedAppends == 4
\* Half days the clock advances
MaxTicks == 3

(***************************************************************************)
(* Text helpers: Python str.strip(), str.lower(), and the character       *)
(* classes used by the validators.                                         *)
(***************************************************************************)
Digits == <<"0", "1", "2", "3", "4", "5", "6", "7", "8", "9">>
UpperAlpha == <<"A", "B", "C", "D", "E", "F", "G", "H", "I", "J", "K", "L", "M",
                "N", "O", "P", "Q", "R", "S", "T", "U", "V", "W", "X", "Y", "Z">>
LowerAlpha == <<"a", "b", "c", "d", "e", "f", "g", "h", "i", "j", "k", "l", "m",
                "n", "o", "p", "q", "r", "s", "t", "u", "v", "w", "x", "y", "z">>

Range(s) == {s[i] : i \in DOMAIN s}
DigitChars == Range(Digits)
LetterChars == Range(UpperAlpha) \cup Range(LowerAlpha)
IsDigit(c) == c \in DigitChars
IsLetter(c) == c \in LetterChars
IsSpace(c) == c \in {" ", "\t", "\n"}
DigitVal(c) == (CHOOSE i \in DOMAIN Digits : Digits[i] = c) - 1

Max(a, b) == IF a >= b THEN a ELSE b

\* str.lower() on one character
LowerChar(c) ==
    IF c \in Range(UpperAlpha)
    THEN LowerAlpha[CHOOSE i \in DOMAIN UpperAlpha : UpperAlpha[i] = c]
    ELSE c

\* str.lower()
Lower(s) == [i \in DOMAIN s |-> LowerChar(s[i])]

\* str.strip(): drop leading and trailing whitespace
Strip(s) ==
    LET keep == {i \in DOMAIN s : ~IsSpace(s[i])}
    IN IF keep = {} THEN <<>>
       ELSE LET lo == CHOOSE i \in keep : \A j \in keep : i <= j
                hi == CHOOSE i \in keep : \A j \in keep : j <= i
            IN SubSeq(s, lo, hi)

(***************************************************************************)
(* Text conversions of the Python library, computed character by           *)
(* character.                                                              *)
(***************************************************************************)
\* re.match(r'^[a-zA-Z0-9._%+-]+@[a-zA-Z0-9.-]+\.[a-zA-Z]{2,}$', s)
EmailPattern(s) ==
    \E at \in DOMAIN s : \E dot \in DOMAIN s :
        /\ s[at] = "@"
        /\ s[dot] = "."
        /\ 1 < at
        /\ at + 1 < dot
        /\ dot + 2 <= Len(s)
        /\ \A i \in 1..(at - 1) :
               IsLetter(s[i]) \/ IsDigit(s[i]) \/ s[i] \in {".", "_", "%", "+", "-"}
        /\ \A i \in (at + 1)..(dot - 1) :
               IsLetter(s[i]) \/ IsDigit(s[i]) \/ s[i] \in {".", "-"}
        /\ \A i \in (dot + 1)..Len(s) : IsLetter(s[i])

\* Number encoded by the digit characters s[from..to]
RECURSIVE NumAt(_, _, _)
NumAt(s, from, to) ==
    IF to < from THEN 0
    ELSE 10 * NumAt(s, from, to - 1) + DigitVal(s[to])

DigitsAt(s, from, to) == to <= Len(s) /\ \A i \in from..to : IsDigit(s[i])

\* strptime directive %H at position p: regex (2[0-3]|[0-1]\d|\d); the
\* alternatives are tried in this order.  Result: lengths that match.
HourLens(s, p) ==
    {n \in {1, 2} :
        /\ DigitsAt(s, p, p + n - 1)
        /\ n = 2 => NumAt(s, p, p + 1) <= 23}

\* strptime directive %M at position p: regex ([0-5]\d|\d)
MinuteLens(s, p) ==
    {n \in {1, 2} :
        /\ DigitsAt(s, p, p + n - 1)
        /\ n = 2 => NumAt(s, p, p + 1) <= 59}

\* All ways the regex of '%H:%M' matches a prefix of s, as <<hour length,
\* minute length>>.
HMMatches(s) ==
    {m \in {1, 2} \X {1, 2} :
        /\ m[1] \in HourLens(s, 1)
        /\ m[1] + 1 <= Len(s)
        /\ s[m[1] + 1] = ":"
        /\ m[2] \in MinuteLens(s, m[1] + 2)}

\* The match the regex engine returns: longest hour alternative first, then
\* longest minute alternative.
HMFirst(s) ==
    CHOOSE m \in HMMatches(s) :
        \A o \in HMMatches(s) : o[1] < m[1] \/ (o[1] = m[1] /\ o[2] <= m[2])

\* datetime.strptime(v, '%H:%M').time() as minutes after midnight, or -1
\* when strptime raises ValueError (no match, or unconverted data remains).
ParseTime(v) ==
    IF HMMatches(v) = {} THEN -1
    ELSE LET m == HMFirst(v)
             end == m[1] + 1 + m[2]
         IN IF end # Len(v) THEN -1
            ELSE 60 * NumAt(v, 1, m[1]) + NumAt(v, m[1] + 2, end)

\* strptime directive %m: regex (1[0-2]|0[1-9]|[1-9])
MonthLens(s, p) ==
    {n \in {1, 2} :
        /\ DigitsAt(s, p, p + n - 1)
        /\ NumAt(s, p, p + n - 1) >= 1
        /\ n = 2 => NumAt(s, p, p + 1) <= 12}

\* strptime directive %d: regex (3[0-1]|[1-2]\d|0[1-9]|[1-9]| [1-9])
DayLens(s, p) ==
    {n \in {1, 2} :
        \/ /\ DigitsAt(s, p, p + n - 1)
           /\ NumAt(s, p, p + n - 1) >= 1
           /\ n = 2 => NumAt(s, p, p + 1) <= 31
        \/ /\ n = 2
           /\ p + 1 <= Len(s)
           /\ s[p] = " "
           /\ IsDigit(s[p + 1])
           /\ s[p + 1] # "0"}

\* All ways the regex of '%Y-%m-%d' matches a prefix of s, as <<month
\* length, day length>>; %Y is exactly four digits.
YMDMatches(s) ==
    {m \in {1, 2} \X {1, 2} :
        /\ DigitsAt(s, 1, 4)
        /\ 5 <= Len(s)
        /\ s[5] = "-"
        /\ m[1] \in MonthLens(s, 6)
        /\ 6 + m[1] <= Len(s)
        /\ s[6 + m[1]] = "-"
        /\ m[2] \in DayLens(s, 7 + m[1])}

YMDFirst(s) ==
    CHOOSE m \in YMDMatches(s) :
        \A o \in YMDMatches(s) : o[1] < m[1] \/ (o[1] = m[1] /\ o[2] <= m[2])

IsLeap(y) == (y % 4 = 0 /\ y % 100 # 0) \/ y % 400 = 0

DaysInMonth(y, m) ==
    IF m = 2 THEN (IF IsLeap(y) THEN 29 ELSE 28)
    ELSE IF m \in {4, 6, 9, 11} THEN 30 ELSE 31

\* datetime.strptime(v, '%Y-%m-%d') as <<year, month, day>>, or <<>> when it
\* raises ValueError.
ParseDate(v) ==
    IF YMDMatches(v) = {} THEN <<>>
    ELSE LET m == YMDFirst(v)
             end == 6 + m[1] + m[2]
             y == NumAt(v, 1, 4)
             mo == NumAt(v, 6, 5 + m[1])
             dfrom == IF v[7 + m[1]] = " " THEN 8 + m[1] ELSE 7 + m[1]
             d == NumAt(v, dfrom, end)
         IN IF end # Len(v) \/ y < 1 \/ d > DaysInMonth(y, mo) THEN <<>>
            ELSE <<y, mo, d>>

(***************************************************************************)
(* Request inputs.  Each field has well-formed texts, texts that the       *)
(* validators normalise, and texts that the validators reject.             *)
(***************************************************************************)
NameSm == <<"S", "m">>
NameSmPadded == <<" ", "S", "m", " ">>
TextBlank == <<" ">>
SpecialtyCardiology == <<"C", "a", "r", "d", "i", "o", "l", "o", "g", "y">>
SpecialtyDermatology == <<"D", "e", "r", "m", "a", "t", "o", "l", "o", "g", "y">>
EmailS == <<"s", "@", "x", ".", "i", "o">>
EmailSUpper == <<"S", "@", "X", ".", "i", "o">>
EmailT == <<"t", "@", "x", ".", "i", "o">>
EmailNoAt == <<"s", "x", ".", "i", "o">>
PatientA == <<"a">>
PatientAPadded == <<" ", "a">>
PatientB == <<"b">>
DateJan05 == <<"2", "0", "2", "4", "-", "0", "1", "-", "0", "5">>
DateJan5 == <<"2", "0", "2", "4", "-", "1", "-", "5">>
DateJan06 == <<"2", "0", "2", "4", "-", "0", "1", "-", "0", "6">>
DateFeb30 == <<"2", "0", "2", "4", "-", "0", "2", "-", "3", "0">>
Time0900 == <<"0", "9", ":", "0", "0">>
Time900 == <<"9", ":", "0", "0">>
Time1700 == <<"1", "7", ":", "0", "0">>
Time1701 == <<"1", "7", ":", "0", "1">>
Time859 == <<"8", ":", "5", "9">>
TimeNoColon == <<"9", "h">>

\* Every text a request can carry
InputTexts ==
    <<NameSm, NameSmPadded, TextBlank, SpecialtyCardiology, SpecialtyDermatology,
      EmailS, EmailSUpper, EmailT, EmailNoAt, PatientA, PatientAPadded, PatientB,
      DateJan05, DateJan5, DateJan06, DateFeb30, Time0900, Time900, Time1700, Time1701,
      Time859, TimeNoColon>>

\* Bodies of POST /doctors/
DoctorRequests ==
    [name : {NameSm, NameSmPadded, TextBlank},
     specialty : {SpecialtyCardiology, SpecialtyDermatology},
     email : {EmailS, EmailSUpper, EmailT, EmailNoAt},
     slots_per_day : {0, 1, 2}]

\* Bodies of POST /doctors/{doctor_id}/appointments/
AppointmentRequests ==
    [patient_name : {PatientA, PatientAPadded, PatientB, TextBlank},
     appointment_date : {DateJan05, DateJan5, DateFeb30},
     time_slot : {Time0900, Time900, Time1700, Time1701, Time859, TimeNoColon}]

\* The requests of the booking specification: two doctors that can coexist
\* (one slot, two slots) and a rejected body; two patients at two times of
\* one day, one of them also on the next day, and a rejected body.
BookingDoctorRequests ==
    {[name |-> NameSm, specialty |-> SpecialtyCardiology,
      email |-> EmailS, slots_per_day |-> 1],
     [name |-> NameSmPadded, specialty |-> SpecialtyDermatology,
      email |-> EmailT, slots_per_day |-> 2],
     [name |-> NameSm, specialty |-> SpecialtyCardiology,
      email |-> EmailSUpper, slots_per_day |-> 0]}
BookingRequests ==
    [patient_name : {PatientA, PatientB},
     appointment_date : {DateJan05},
     time_slot : {Time0900, Time1700}]
    \cup {[patient_name |-> PatientA, appointment_date |-> DateJan06,
           time_slot |-> Time0900]}
    \cup {[patient_name |-> PatientAPadded, appointment_date |-> DateJan05,
           time_slot |-> Time1701]}

(***************************************************************************)
(* The conversions above, tabulated once for every text a request can      *)
(* carry (InputTexts), so that a handler step looks the result up.         *)
(***************************************************************************)
Texts == {InputTexts[i] : i \in 1..Len(InputTexts)}
StripTable == [t \in Texts |-> Strip(t)]
LowerTable == [t \in Texts |-> Lower(Strip(t))]
EmailPatternTable == [t \in Texts |-> EmailPattern(Strip(t))]
ParseTimeTable == [t \in Texts |-> ParseTime(t)]
ParseDateTable == [t \in Texts |-> ParseDate(t)]

\* v.strip()
strip(v) == StripTable[v]
\* v.strip().lower()
strip_lower(v) == LowerTable[v]
\* re.match(email_pattern, v.strip())
email_match(v) == EmailPatternTable[v]
\* datetime.strptime(v, '%H:%M').time()
strptime_time(v) == ParseTimeTable[v]
\* datetime.strptime(v, '%Y-%m-%d')
strptime_date(v) == ParseDateTable[v]

(***************************************************************************)
(* schemas.py: DoctorCreate                                                *)
(***************************************************************************)
\* `not v or not v.strip()`
Blank(v) == v = <<>> \/ strip(v) = <<>>

\* validate_slots
ValidSlots(v) == ~(v <= 0)

\* validate_email: the value kept is v.strip().lower()
ValidEmail(v) == ~Blank(v) /\ email_match(v)
NormEmail(v) == strip_lower(v)

\* validate_strings (name, specialty): the value kept is v.strip()
ValidString(v) == ~Blank(v)

\* The request body passes every validator of DoctorCreate
ValidDoctorCreate(req) ==
    /\ ValidSlots(req.slots_per_day)
    /\ ValidString(req.name)
    /\ ValidString(req.specialty)
    /\ ValidEmail(req.email)

\* The DoctorCreate object the handler receives
DoctorCreate(req) ==
    [name |-> strip(req.name),
     specialty |-> strip(req.specialty),
     email |-> NormEmail(req.email),
     slots_per_day |-> req.slots_per_day]

(***************************************************************************)
(* schemas.py: AppointmentCreate                                           *)
(***************************************************************************)
StartTime == 9 * 60
EndTime == 17 * 60

\* Mutant: the ends of the working day are excluded
ValidTimeSlot_Exclusive(v) ==
    LET time_obj == strptime_time(v)
    IN /\ time_obj # -1
       /\ StartTime < time_obj
       /\ time_obj < EndTime

\* validate_time_slot: the value kept is v unchanged
ValidTimeSlot(v) ==
    LET time_obj == strptime_time(v)
    IN /\ time_obj # -1
       /\ StartTime <= time_obj
       /\ time_obj <= EndTime

\* validate_date: the value kept is v unchanged
ValidDate(v) == strptime_date(v) # <<>>

\* validate_patient_name: the value kept is v.strip()
ValidPatientName(v) == ~Blank(v)

ValidAppointmentCreate(req) ==
    /\ ValidPatientName(req.patient_name)
    /\ ValidDate(req.appointment_date)
    /\ ValidTimeSlot(req.time_slot)

\* The AppointmentCreate object the handler receives
AppointmentCreate(req) ==
    [patient_name |-> strip(req.patient_name),
     appointment_date |-> req.appointment_date,
     time_slot |-> req.time_slot]

\* Path parameters: every id that can exist and one that cannot
DoctorIds == 1..(MaxDoctors + 1)
AppointmentIds == 1..(MaxAppointments + 1)

\* What the email collaborator does with one notification: it is delivered,
\* send_email reports False, or the call raises.
MailOutcomes == {"sent", "failed", "raised"}

(***************************************************************************)
(* State                                                                   *)
(***************************************************************************)
VARIABLES
    doctors,       \* table "doctors", in insertion order
    appointments,  \* table "appointments", in insertion order
    response,      \* what the last request returned to its caller
    outbox,        \* the notifications the last request handed to email_service
    tasks,         \* the book_appointment coroutines on the event loop
    conversations, \* HealthcareChatbot.conversations: session_id -> session
    now,           \* datetime.now(), in hours
    submitted,     \* the messages last submitted to the completion client
    sent           \* callers' side: how many messages went to each session

vars == <<doctors, appointments, response, outbox,
          tasks, conversations, now, submitted, sent>>

\* What the booking and doctor handlers leave alone
chatVars == <<conversations, now, submitted, sent>>

NoResponse == [op |-> "none", status |-> 0, body |-> [detail |-> "none"]]

Tasks == 1..MaxTasks

\* A coroutine that has not received its request yet
IdleTask == [pc |-> "idle", doctor_id |-> 0, appointment |-> <<>>,
             result |-> NoResponse]

\* self.conversations = {}
NoConversations == <<>>

Init ==
    /\ doctors = <<>>
    /\ appointments = <<>>
    /\ response = NoResponse
    /\ outbox = <<>>
    /\ tasks = [t \in Tasks |-> IdleTask]
    /\ conversations = NoConversations
    /\ now = 0
    /\ submitted = <<>>
    /\ sent = [session_id \in {"s1", "s2"} |-> 0]

\* No exception was raised
NoError == [op |-> "none", status |-> 0, body |-> [detail |-> "no error"]]

\* raise HTTPException(status_code, detail)
HTTPException(op, status_code, detail) ==
    [op |-> op, status |-> status_code, body |-> [detail |-> detail]]

\* FastAPI's answer when the request body fails a pydantic validator
RequestValidationError(op) ==
    [op |-> op, status |-> 422, body |-> [detail |-> "validation error"]]

(***************************************************************************)
(* main.py                                                                 *)
(***************************************************************************)
\* Mutant: the count includes the cancelled appointments
BookedAppointments_All(doctor) ==
    Len(SelectSeq(appointments, LAMBDA a : a.doctor_id = doctor.id))

\* db.query(Appointment).filter(doctor_id == doctor.id,
\*                              is_cancelled == False).count()
BookedAppointments(doctor) ==
    Len(SelectSeq(appointments,
                  LAMBDA a : a.doctor_id = doctor.id /\ a.is_cancelled = FALSE))

GetDoctorAvailableSlots(doctor) ==
    Max(0, doctor.slots_per_day - BookedAppointments(doctor))

\* db.query(Doctor).filter(Doctor.id == doctor_id).first()
DoctorById(doctor_id) == {i \in DOMAIN doctors : doctors[i].id = doctor_id}

\* db.query(Doctor).filter(name == doctor.name, specialty == doctor.specialty)
ExistingDoctorName(doctor) ==
    {i \in DOMAIN doctors :
        /\ doctors[i].name = doctor.name
        /\ doctors[i].specialty = doctor.specialty}

\* db.query(Doctor).filter(email == doctor.email)
ExistingDoctorEmail(doctor) ==
    {i \in DOMAIN doctors : doctors[i].email = doctor.email}

\* Mutant: the email check runs before the name-and-specialty check
DoctorError_EmailFirst(doctor) ==
    IF ExistingDoctorEmail(doctor) # {}
    THEN HTTPException("add_doctor", 400, "Doctor with this email already exists")
    ELSE IF ExistingDoctorName(doctor) # {}
    THEN HTTPException("add_doctor", 400,
                       "Doctor with this name and specialty already exists")
    ELSE NoError

\* The two duplicate checks of add_doctor, in the order of the code: the
\* HTTPException raised, or NoError
DoctorError(doctor) ==
    IF ExistingDoctorName(doctor) # {}
    THEN HTTPException("add_doctor", 400,
                       "Doctor with this name and specialty already exists")
    ELSE IF ExistingDoctorEmail(doctor) # {}
    THEN HTTPException("add_doctor", 400, "Doctor with this email already exists")
    ELSE NoError

\* Mutant: the notification is built before the row has its id
Notification_WithoutId(kind, doctor, id, patient_name, appointment_date, time_slot, mail) ==
    [kind |-> kind, doctor_email |-> doctor.email, doctor_name |-> doctor.name,
     id |-> 0, patient_name |-> patient_name,
     appointment_date |-> appointment_date, time_slot |-> time_slot,
     outcome |-> mail]

\* One notification handed to email_service, with what became of it
Notification(kind, doctor, id, patient_name, appointment_date, time_slot, mail) ==
    [kind |-> kind, doctor_email |-> doctor.email, doctor_name |-> doctor.name,
     id |-> id, patient_name |-> patient_name,
     appointment_date |-> appointment_date, time_slot |-> time_slot,
     outcome |-> mail]

\* try: send_welcome_doctor_email(...) except Exception: print(...)
\* then return DoctorResponse(...); get_doctor returns the same shape
DoctorResponse(op, status_code, doctor, available_slots, mail) ==
    [op |-> op, status |-> status_code,
     body |-> [id |-> doctor.id, name |-> doctor.name,
               specialty |-> doctor.specialty, email |-> doctor.email,
               slots_per_day |-> doctor.slots_per_day,
               available_slots |-> available_slots]]

\* The next value of an autoincrement primary key (rows are never deleted)
NextId(table) == Len(table) + 1

\* POST /doctors/
AddDoctor(req) ==
    IF ~ValidDoctorCreate(req)
    THEN /\ response' = RequestValidationError("add_doctor")
         /\ outbox' = <<>>
         /\ UNCHANGED <<doctors, appointments>>
    ELSE LET doctor == DoctorCreate(req)
             db_doctor == [id |-> NextId(doctors),
                           name |-> doctor.name,
                           specialty |-> doctor.specialty,
                           email |-> doctor.email,
                           slots_per_day |-> doctor.slots_per_day]
             error == DoctorError(doctor)
         IN IF error # NoError
            THEN /\ response' = error
                 /\ outbox' = <<>>
                 /\ UNCHANGED <<doctors, appointments>>
            ELSE \E mail \in MailOutcomes :
                 /\ Len(doctors) < MaxDoctors
                 /\ doctors' = Append(doctors, db_doctor)
                 /\ UNCHANGED appointments
                 /\ outbox' = <<Notification("welcome", db_doctor, db_doctor.id,
                                             <<>>, <<>>, <<>>, mail)>>
                 /\ response' = DoctorResponse("add_doctor", 201, db_doctor,
                                     GetDoctorAvailableSlots(db_doctor), mail)

\* GET /doctors/{doctor_id}
GetDoctor(doctor_id) ==
    /\ outbox' = <<>>
    /\ UNCHANGED <<doctors, appointments>>
    /\ IF DoctorById(doctor_id) = {}
       THEN response' = HTTPException("get_doctor", 404, "Doctor not found")
       ELSE LET doctor == doctors[CHOOSE i \in DoctorById(doctor_id) : TRUE]
            IN response' = DoctorResponse("get_doctor", 200, doctor,
                                GetDoctorAvailableSlots(doctor), "sent")

\* Mutant: the patient query looks among the cancelled appointments
ExistingAppointment_Cancelled(appointment) ==
    {i \in DOMAIN appointments :
        /\ appointments[i].patient_name = appointment.patient_name
        /\ appointments[i].appointment_date = appointment.appointment_date
        /\ appointments[i].time_slot = appointment.time_slot
        /\ appointments[i].is_cancelled = TRUE}

\* db.query(Appointment).filter(patient_name == ..., appointment_date == ...,
\*                              time_slot == ..., is_cancelled == False)
ExistingAppointment(appointment) ==
    {i \in DOMAIN appointments :
        /\ appointments[i].patient_name = appointment.patient_name
        /\ appointments[i].appointment_date = appointment.appointment_date
        /\ appointments[i].time_slot = appointment.time_slot
        /\ appointments[i].is_cancelled = FALSE}

\* Mutant: the doctor query is a copy of the patient query and filters on the
\* patient instead of the doctor
DoctorAppointment_ByPatient(doctor_id, appointment) ==
    {i \in DOMAIN appointments :
        /\ appointments[i].patient_name = appointment.patient_name
        /\ appointments[i].appointment_date = appointment.appointment_date
        /\ appointments[i].time_slot = appointment.time_slot
        /\ appointments[i].is_cancelled = FALSE}

\* db.query(Appointment).filter(doctor_id == doctor_id, appointment_date == ...,
\*                              time_slot == ..., is_cancelled == False)
DoctorAppointment(doctor_id, appointment) ==
    {i \in DOMAIN appointments :
        /\ appointments[i].doctor_id = doctor_id
        /\ appointments[i].appointment_date = appointment.appointment_date
        /\ appointments[i].time_slot = appointment.time_slot
        /\ appointments[i].is_cancelled = FALSE}

\* Mutant: the capacity test is off by one
NoAvailableSlots_OffByOne(doctor) == GetDoctorAvailableSlots(doctor) < 0

\* `if available_slots <= 0`
NoAvailableSlots(doctor) == GetDoctorAvailableSlots(doctor) <= 0

\* Mutant: the two time-slot checks run before the capacity check
BookingError_ConflictsFirst(doctor_id, appointment) ==
    IF DoctorById(doctor_id) = {}
    THEN HTTPException("book_appointment", 404, "Doctor not found")
    ELSE IF ExistingAppointment(appointment) # {}
    THEN HTTPException("book_appointment", 400,
                       "Patient already has an appointment at this time slot")
    ELSE IF DoctorAppointment(doctor_id, appointment) # {}
    THEN HTTPException("book_appointment", 400,
                       "Doctor already has an appointment at this time slot")
    ELSE IF NoAvailableSlots(doctors[CHOOSE i \in DoctorById(doctor_id) : TRUE])
    THEN HTTPException("book_appointment", 400,
                       "No available slots for this doctor")
    ELSE NoError

\* The four checks of book_appointment, in the order of the code: the
\* HTTPException raised, or NoError
BookingError(doctor_id, appointment) ==
    IF DoctorById(doctor_id) = {}
    THEN HTTPException("book_appointment", 404, "Doctor not found")
    ELSE IF NoAvailableSlots(doctors[CHOOSE i \in DoctorById(doctor_id) : TRUE])
    THEN HTTPException("book_appointment", 400,
                       "No available slots for this doctor")
    ELSE IF ExistingAppointment(appointment) # {}
    THEN HTTPException("book_appointment", 400,
                       "Patient already has an appointment at this time slot")
    ELSE IF DoctorAppointment(doctor_id, appointment) # {}
    THEN HTTPException("book_appointment", 400,
                       "Doctor already has an appointment at this time slot")
    ELSE NoError

\* Mutant: an exception of the notifier reaches the caller
AppointmentResponse_Propagates(db_appointment, doctor, mail) ==
    IF mail = "raised"
    THEN HTTPException("book_appointment", 500, "Internal Server Error")
    ELSE [op |-> "book_appointment", status |-> 201,
          body |-> [id |-> db_appointment.id,
                    patient_name |-> db_appointment.patient_name,
                    appointment_date |-> db_appointment.appointment_date,
                    time_slot |-> db_appointment.time_slot,
                    doctor_id |-> doctor.id,
                    doctor_name |-> doctor.name,
                    doctor_specialty |-> doctor.specialty,
                    is_cancelled |-> db_appointment.is_cancelled]]

\* try: send_appointment_notification(...) except Exception: print(...)
\* then return AppointmentResponse(...)
AppointmentResponse(db_appointment, doctor, mail) ==
    [op |-> "book_appointment", status |-> 201,
     body |-> [id |-> db_appointment.id,
               patient_name |-> db_appointment.patient_name,
               appointment_date |-> db_appointment.appointment_date,
               time_slot |-> db_appointment.time_slot,
               doctor_id |-> doctor.id,
               doctor_name |-> doctor.name,
               doctor_specialty |-> doctor.specialty,
               is_cancelled |-> db_appointment.is_cancelled]]

\* POST /doctors/{doctor_id}/appointments/
BookAppointment(doctor_id, req) ==
    IF ~ValidAppointmentCreate(req)
    THEN /\ response' = RequestValidationError("book_appointment")
         /\ outbox' = <<>>
         /\ UNCHANGED <<doctors, appointments>>
    ELSE LET appointment == AppointmentCreate(req)
             db_appointment == [id |-> NextId(appointments),
                                patient_name |-> appointment.patient_name,
                                appointment_date |-> appointment.appointment_date,
                                time_slot |-> appointment.time_slot,
                                doctor_id |-> doctor_id,
                                is_cancelled |-> FALSE]
             error == BookingError(doctor_id, appointment)
         IN IF error # NoError
            THEN /\ response' = error
                 /\ outbox' = <<>>
                 /\ UNCHANGED <<doctors, appointments>>
            ELSE LET doctor == doctors[CHOOSE i \in DoctorById(doctor_id) : TRUE]
                 IN \E mail \in MailOutcomes :
                    /\ Len(appointments) < MaxAppointments
                    /\ appointments' = Append(appointments, db_appointment)
                    /\ UNCHANGED doctors
                    /\ outbox' = <<Notification("booked", doctor, db_appointment.id,
                                                db_appointment.patient_name,
                                                db_appointment.appointment_date,
                                                db_appointment.time_slot, mail)>>
                    /\ response' = AppointmentResponse(db_appointment, doctor, mail)

\* db.query(Appointment).join(Doctor).filter(Appointment.id == appointment_id)
AppointmentById(appointment_id) ==
    {i \in DOMAIN appointments :
        /\ appointments[i].id = appointment_id
        /\ DoctorById(appointments[i].doctor_id) # {}}

\* Mutant: the flag is not looked at
AlreadyCancelled_Never(appointment) == FALSE

\* `if appointment.is_cancelled`
AlreadyCancelled(appointment) == appointment.is_cancelled

\* The two checks of cancel_appointment, in the order of the code: the
\* HTTPException raised, or NoError
CancelError(appointment_id) ==
    IF AppointmentById(appointment_id) = {}
    THEN HTTPException("cancel_appointment", 404, "Appointment not found")
    ELSE IF AlreadyCancelled(appointments[CHOOSE i \in AppointmentById(appointment_id) : TRUE])
    THEN HTTPException("cancel_appointment", 400, "Appointment is already cancelled")
    ELSE NoError

\* Mutant: cancelling deletes the row
CommitCancel_Delete(table, i) ==
    SubSeq(table, 1, i - 1) \o SubSeq(table, i + 1, Len(table))

\* Mutant: the flag is set on the object but the change is not committed
CommitCancel_NotPersisted(table, i) == table

\* appointment.is_cancelled = True; db.commit()
CommitCancel(table, i) == [table EXCEPT ![i].is_cancelled = TRUE]

\* try: send_cancellation_notification(...) except Exception: print(...)
\* then return {"message": ...}
CancelResponse(appointment_id, mail) ==
    [op |-> "cancel_appointment", status |-> 200,
     body |-> [id |-> appointment_id, message |-> "successfully cancelled"]]

\* DELETE /appointments/{appointment_id}
CancelAppointment(appointment_id) ==
    IF CancelError(appointment_id) # NoError
    THEN /\ response' = CancelError(appointment_id)
         /\ outbox' = <<>>
         /\ UNCHANGED <<doctors, appointments>>
    ELSE LET i == CHOOSE j \in AppointmentById(appointment_id) : TRUE
             appointment == appointments[i]
             doctor == doctors[CHOOSE d \in DoctorById(appointment.doctor_id) : TRUE]
         IN \E mail \in MailOutcomes :
            /\ appointments' = CommitCancel(appointments, i)
            /\ UNCHANGED doctors
            /\ outbox' = <<Notification("cancelled", doctor, appointment_id,
                                        appointment.patient_name,
                                        appointment.appointment_date,
                                        appointment.time_slot, mail)>>
            /\ response' = CancelResponse(appointment_id, mail)

\* db.query(Appointment).join(Doctor).all()
AllAppointments ==
    SelectSeq(appointments, LAMBDA a : DoctorById(a.doctor_id) # {})

\* GET /appointments/
GetAppointments ==
    /\ outbox' = <<>>
    /\ UNCHANGED <<doctors, appointments>>
    /\ response' = [op |-> "get_appointments", status |-> 200,
                    body |-> [items |-> [i \in DOMAIN AllAppointments |->
                                 [id |-> AllAppointments[i].id,
                                  is_cancelled |-> AllAppointments[i].is_cancelled]]]]

(***************************************************************************)
(* main.py: book_appointment as the coroutine it is.  Its body first runs  *)
(* the four checks (lines 152-194) and then inserts and commits (lines     *)
(* 196-206).  The handler is declared `async def` and its body holds no    *)
(* `await`, so the event loop of the single uvicorn process (main.py,      *)
(* uvicorn.run) runs no other handler between the two steps.               *)
(***************************************************************************)
\* Mutant: the handler is a plain `def`, run on a thread pool
EventLoopFree_ThreadPool == TRUE

\* No coroutine is between its first statement and its return: a handler
\* without an await keeps the event loop until it returns
EventLoopFree == \A t \in Tasks : tasks[t].pc \in {"idle", "done"}

\* The appointments that coroutines past their checks are about to insert
PendingInserts == Cardinality({t \in Tasks : tasks[t].pc = "checked"})

\* Lines 152-194: validation and the four checks of task t
BookAppointmentChecks(t, doctor_id, req) ==
    /\ tasks[t].pc = "idle"
    /\ EventLoopFree
    /\ UNCHANGED <<doctors, appointments, chatVars>>
    /\ IF ~ValidAppointmentCreate(req)
       THEN /\ response' = RequestValidationError("book_appointment")
            /\ outbox' = <<>>
            /\ tasks' = [tasks EXCEPT ![t] =
                             [pc |-> "done", doctor_id |-> doctor_id,
                              appointment |-> <<>>, result |-> response']]
       ELSE LET appointment == AppointmentCreate(req)
                error == BookingError(doctor_id, appointment)
            IN IF error # NoError
               THEN /\ response' = error
                    /\ outbox' = <<>>
                    /\ tasks' = [tasks EXCEPT ![t] =
                                     [pc |-> "done", doctor_id |-> doctor_id,
                                      appointment |-> appointment,
                                      result |-> error]]
               ELSE /\ Len(appointments) + PendingInserts < MaxAppointments
                    /\ tasks' = [tasks EXCEPT ![t] =
                                     [pc |-> "checked", doctor_id |-> doctor_id,
                                      appointment |-> appointment,
                                      result |-> NoResponse]]
                    /\ UNCHANGED <<response, outbox>>

\* Lines 196-232: insert, commit, notify and return, of task t
BookAppointmentInsert(t) ==
    /\ tasks[t].pc = "checked"
    /\ LET appointment == tasks[t].appointment
           doctor == doctors[CHOOSE i \in DoctorById(tasks[t].doctor_id) : TRUE]
           db_appointment == [id |-> NextId(appointments),
                              patient_name |-> appointment.patient_name,
                              appointment_date |-> appointment.appointment_date,
                              time_slot |-> appointment.time_slot,
                              doctor_id |-> tasks[t].doctor_id,
                              is_cancelled |-> FALSE]
       IN \E mail \in MailOutcomes :
          /\ appointments' = Append(appointments, db_appointment)
          /\ outbox' = <<Notification("booked", doctor, db_appointment.id,
                                      db_appointment.patient_name,
                                      db_appointment.appointment_date,
                                      db_appointment.time_slot, mail)>>
          /\ response' = AppointmentResponse(db_appointment, doctor, mail)
          /\ tasks' = [tasks EXCEPT ![t].pc = "done", ![t].result = response']
    /\ UNCHANGED <<doctors, chatVars>>

(***************************************************************************)
(* chatbot_service.py: the availability the recommendation matcher         *)
(* computes from doctor.appointments                                       *)
(***************************************************************************)
\* relationship("Appointment", back_populates="doctor")
DoctorAppointments(doctor) ==
    SelectSeq(appointments, LAMBDA a : a.doctor_id = doctor.id)

\* max(0, doctor.slots_per_day
\*        - len([apt for apt in doctor.appointments if not apt.is_cancelled]))
SuggestAvailableSlots(doctor) ==
    Max(0, doctor.slots_per_day
           - Len(SelectSeq(DoctorAppointments(doctor), LAMBDA apt : ~apt.is_cancelled)))

(***************************************************************************)
(* chatbot_service.py: the conversation sessions                           *)
(***************************************************************************)
SessionIds == {"s1", "s2"}

\* `if len(messages) > 20: messages = messages[-20:]`
HistoryLimit == 20

\* Python seq[-n:]
Last(seq, n) ==
    IF Len(seq) > n THEN SubSeq(seq, Len(seq) - n + 1, Len(seq)) ELSE seq

\* {"messages": [], "created_at": datetime.now(), "last_activity": datetime.now()}
NewConversation ==
    [messages |-> <<>>, created_at |-> now, last_activity |-> now]

\* Mutant: creating a session starts a new table
WithConversation_Reset(table, session_id) ==
    IF session_id \in DOMAIN table
    THEN table
    ELSE [sid \in {session_id} |-> NewConversation]

\* `if session_id not in self.conversations: self.conversations[session_id] = {...}`
WithConversation(table, session_id) ==
    IF session_id \in DOMAIN table
    THEN table
    ELSE [sid \in DOMAIN table \cup {session_id} |->
             IF sid = session_id THEN NewConversation ELSE table[sid]]

\* Mutant: the history keeps its first 20 messages
Truncate_KeepFirst(messages) ==
    IF Len(messages) > HistoryLimit
    THEN SubSeq(messages, 1, HistoryLimit)
    ELSE messages

\* Mutant: the history is never cut
Truncate_Never(messages) == messages

\* Keep only last 20 messages
Truncate(messages) ==
    IF Len(messages) > HistoryLimit
    THEN Last(messages, HistoryLimit)
    ELSE messages

\* add_message_to_history, as a function of the table
AddMessage(table, session_id, role, content) ==
    LET created == WithConversation(table, session_id)
        message == [role |-> role, content |-> content, timestamp |-> now]
    IN [created EXCEPT
           ![session_id].messages = Truncate(Append(@, message)),
           ![session_id].last_activity = now]

\* What a method of the chatbot returned to its caller
Returned(op, body) == [op |-> op, status |-> 0, body |-> body]

\* HealthcareChatbot.add_message_to_history(session_id, role, content)
AddMessageToHistory(session_id, role, content) ==
    /\ conversations' = AddMessage(conversations, session_id, role, content)
    /\ response' = Returned("add_message_to_history", [detail |-> "None"])
    /\ UNCHANGED <<doctors, appointments, outbox, tasks, now, submitted>>

\* HealthcareChatbot.get_conversation_history(session_id)
GetConversationHistory(session_id) ==
    /\ conversations' = WithConversation(conversations, session_id)
    /\ response' = Returned("get_conversation_history",
                            [session_id |-> session_id,
                             messages |-> conversations'[session_id].messages])
    /\ UNCHANGED <<doctors, appointments, outbox, tasks, now, submitted>>

\* `def clean_old_conversations(self, hours: int = 24)`
EvictionHours == 24

\* Mutant: a session as old as the threshold is removed too
CleanOldConversations_NonStrict(table) ==
    LET cutoff_time == now - EvictionHours
        sessions_to_remove ==
            {sid \in DOMAIN table : table[sid].last_activity <= cutoff_time}
    IN [sid \in DOMAIN table \ sessions_to_remove |-> table[sid]]

\* clean_old_conversations, as a function of the table
CleanOldConversations(table) ==
    LET cutoff_time == now - EvictionHours
        sessions_to_remove ==
            {sid \in DOMAIN table : table[sid].last_activity < cutoff_time}
    IN [sid \in DOMAIN table \ sessions_to_remove |-> table[sid]]

\* get_doctors_list: the text, kept as the values it is formatted from
GetDoctorsList ==
    IF doctors = <<>>
    THEN [text |-> "Currently no doctors are available in our system.",
          doctors_info |-> <<>>]
    ELSE [text |-> "Available doctors in our system:",
          doctors_info |->
              [i \in DOMAIN doctors |->
                  [name |-> doctors[i].name,
                   specialty |-> doctors[i].specialty,
                   available_slots |-> SuggestAvailableSlots(doctors[i]),
                   slots_per_day |-> doctors[i].slots_per_day]]]

\* get_system_prompt(doctors_list)
GetSystemPrompt(doctors_list) ==
    [persona |-> "You are MedBot", doctors_list |-> doctors_list]

\* `conversation_history[-10:] if len(conversation_history) > 10`
ContextLimit == 10

\* Mutant: the window is the first 10 messages of the history
RecentHistory_Oldest(conversation_history) ==
    IF Len(conversation_history) > ContextLimit
    THEN SubSeq(conversation_history, 1, ContextLimit)
    ELSE conversation_history

RecentHistory(conversation_history) ==
    IF Len(conversation_history) > ContextLimit
    THEN Last(conversation_history, ContextLimit)
    ELSE conversation_history

\* The messages built for the API call (lines 128-148)
BuildMessages(doctors_list, conversation_history, user_message) ==
    LET recent_history ==
            SelectSeq(RecentHistory(conversation_history),
                      LAMBDA msg : msg.role \in {"user", "assistant"})
    IN <<[role |-> "system", content |-> GetSystemPrompt(doctors_list)]>>
       \o [i \in DOMAIN recent_history |->
              [role |-> recent_history[i].role,
               content |-> recent_history[i].content]]
       \o <<[role |-> "user", content |-> user_message]>>

\* error_msg of the except branch
ErrorMsg ==
    "I'm sorry, I'm experiencing some technical difficulties. Please try again in a moment or contact our support team for assistance."

\* The completion client answers with a text, or raises
Completed(content) == [ok |-> TRUE, content |-> content, error |-> ""]
Raised(error) == [ok |-> FALSE, content |-> "", error |-> error]

\* Mutant: the except branch records the fallback without the user message
FailureHistory_FallbackOnly(table, session_id, user_message) ==
    AddMessage(table, session_id, "assistant", ErrorMsg)

\* Mutant: the except branch records nothing
FailureHistory_Nothing(table, session_id, user_message) == table

\* The except branch: the user message and error_msg go to the history
FailureHistory(table, session_id, user_message) ==
    AddMessage(AddMessage(table, session_id, "user", user_message),
               session_id, "assistant", ErrorMsg)

\* Mutant: the reply is recorded before the user message
SuccessHistory_ReplyFirst(table, session_id, user_message, bot_response) ==
    AddMessage(AddMessage(table, session_id, "assistant", bot_response),
               session_id, "user", user_message)

\* Lines 160-162: the user message and the reply go to the history
SuccessHistory(table, session_id, user_message, bot_response) ==
    AddMessage(AddMessage(table, session_id, "user", user_message),
               session_id, "assistant", bot_response)

\* HealthcareChatbot.get_response(user_message, session_id, db)
GetResponse(user_message, session_id, completion) ==
    LET cleaned == CleanOldConversations(conversations)
        doctors_list == GetDoctorsList
        looked_up == WithConversation(cleaned, session_id)
        conversation_history == looked_up[session_id].messages
        messages == BuildMessages(doctors_list, conversation_history, user_message)
    IN /\ submitted' = messages
       /\ IF completion.ok
          THEN /\ conversations' = SuccessHistory(looked_up, session_id,
                                        user_message, completion.content)
               /\ response' = Returned("get_response",
                      [success |-> TRUE,
                       response |-> completion.content,
                       session_id |-> session_id,
                       timestamp |-> now,
                       conversation_length |->
                           Len(conversations'[session_id].messages)])
          ELSE /\ conversations' = FailureHistory(looked_up, session_id,
                                        user_message)
               /\ response' = Returned("get_response",
                      [success |-> FALSE,
                       response |-> ErrorMsg,
                       error |-> completion.error,
                       session_id |-> session_id,
                       timestamp |-> now])
       /\ UNCHANGED <<doctors, appointments, outbox, tasks, now>>

\* `conversation["messages"][-5:]`
SummaryLimit == 5

\* HealthcareChatbot.get_conversation_summary(session_id)
GetConversationSummary(session_id) ==
    /\ response' =
           IF session_id \notin DOMAIN conversations
           THEN Returned("get_conversation_summary",
                         [exists |-> FALSE,
                          message |-> "No conversation found for this session"])
           ELSE LET conversation == conversations[session_id]
                IN Returned("get_conversation_summary",
                       [exists |-> TRUE,
                        session_id |-> session_id,
                        created_at |-> conversation.created_at,
                        last_activity |-> conversation.last_activity,
                        message_count |-> Len(conversation.messages),
                        recent_messages |-> Last(conversation.messages, SummaryLimit)])
    /\ UNCHANGED <<doctors, appointments, outbox, tasks,
                   conversations, now, submitted>>

\* DELETE /chatbot/conversation/{session_id}
ClearConversation(session_id) ==
    /\ IF session_id \in DOMAIN conversations
       THEN /\ conversations' = [sid \in DOMAIN conversations \ {session_id} |->
                                    conversations[sid]]
            /\ response' = [op |-> "clear_conversation", status |-> 200,
                            body |-> [message |-> "cleared successfully"]]
       ELSE /\ UNCHANGED conversations
            /\ response' = [op |-> "clear_conversation", status |-> 200,
                            body |-> [message |-> "Conversation not found"]]
    /\ UNCHANGED <<doctors, appointments, outbox, tasks, now, submitted>>

\* Half of the eviction threshold passes
Tick ==
    /\ now < MaxTicks * (EvictionHours \div 2)
    /\ now' = now + EvictionHours \div 2
    /\ UNCHANGED <<doctors, appointments, response, outbox, tasks,
                   conversations, submitted, sent>>

\* The messages of a session, none when the session is absent
MessagesOf(table, session_id) ==
    IF session_id \in DOMAIN table THEN table[session_id].messages ELSE <<>>

\* The callers number the messages of a session 1, 2, 3, ...: the content of
\* the next message
NextContent(session_id) == sent[session_id] + 1

\* Users and the assistant take turns
NextRole(session_id) ==
    IF NextContent(session_id) % 2 = 1 THEN "user" ELSE "assistant"

\* Messages appended to two sessions, and history lookups
NextHistory ==
    \/ \E session_id \in SessionIds :
           /\ NextContent(session_id) <= MaxAppends
           /\ AddMessageToHistory(session_id, NextRole(session_id),
                                  NextContent(session_id))
           /\ sent' = [sent EXCEPT ![session_id] = @ + 1]
    \/ \E session_id \in SessionIds :
           GetConversationHistory(session_id) /\ UNCHANGED sent
    \/ \E session_id \in SessionIds :
           /\ NextRole(session_id) = "user"
           /\ NextContent(session_id) + 1 <= MaxAppends
           /\ GetResponse(NextContent(session_id), session_id,
                          Completed(NextContent(session_id) + 1))
           /\ sent' = [sent EXCEPT ![session_id] = @ + 2]

SpecHistory == Init /\ [][NextHistory]_vars

\* Booking, cancelling and the two read requests over a small clinic
Next ==
    \/ \E req \in BookingDoctorRequests :
           AddDoctor(req) /\ UNCHANGED <<tasks, chatVars>>
    \/ \E doctor_id \in DoctorIds :
           GetDoctor(doctor_id) /\ UNCHANGED <<tasks, chatVars>>
    \/ \E doctor_id \in DoctorIds : \E req \in BookingRequests :
           BookAppointment(doctor_id, req) /\ UNCHANGED <<tasks, chatVars>>
    \/ \E appointment_id \in AppointmentIds :
           CancelAppointment(appointment_id) /\ UNCHANGED <<tasks, chatVars>>
    \/ GetAppointments /\ UNCHANGED <<tasks, chatVars>>

Spec == Init /\ [][Next]_vars

\* The request bodies of the concurrent bookings: the same slot for two
\* patients, and two slots for the same patient
ConcurrentRequests ==
    {r \in BookingRequests :
        r.appointment_date = DateJan05 /\ r.time_slot \in {Time0900, Time1700}
        /\ (r.patient_name = PatientB => r.time_slot = Time0900)}

ConcurrentDoctorRequests ==
    {r \in BookingDoctorRequests : r.slots_per_day > 0}

\* Concurrent booking requests against a clinic, with cancellations
NextConcurrent ==
    \/ \E req \in ConcurrentDoctorRequests :
           EventLoopFree /\ AddDoctor(req) /\ UNCHANGED <<tasks, chatVars>>
    \/ \E t \in Tasks : \E doctor_id \in DoctorIds : \E req \in ConcurrentRequests :
           BookAppointmentChecks(t, doctor_id, req)
    \/ \E t \in Tasks : BookAppointmentInsert(t)
    \/ \E appointment_id \in AppointmentIds :
           /\ EventLoopFree
           /\ CancelAppointment(appointment_id)
           /\ UNCHANGED <<tasks, chatVars>>

SpecConcurrent == Init /\ [][NextConcurrent]_vars

\* The n-th text of a chat session: user messages and replies are texts
ChatText(n) == ToString(n)

\* The completion client may fail while the history shows no earlier failure
FallbackFree(session_id) ==
    \A i \in DOMAIN MessagesOf(conversations, session_id) :
        MessagesOf(conversations, session_id)[i].content # ErrorMsg

\* What the completion client does with the request for this session
Completions(session_id) ==
    {Completed(ChatText(NextContent(session_id) + 1))}
    \cup (IF FallbackFree(session_id) THEN {Raised("APIConnectionError")} ELSE {})

\* One long conversation next to a short one
ChatLimit(session_id) ==
    IF session_id = "s1" THEN MaxAppends ELSE MaxTimedAppends

\* Conversations with the chatbot while doctors register
NextChat ==
    \/ \E session_id \in SessionIds : \E completion \in Completions(session_id) :
           /\ NextContent(session_id) + 1 <= ChatLimit(session_id)
           /\ GetResponse(ChatText(NextContent(session_id)), session_id, completion)
           /\ sent' = [sent EXCEPT ![session_id] = @ + 2]
    \/ \E session_id \in SessionIds :
           GetConversationHistory(session_id) /\ UNCHANGED sent
    \/ \E session_id \in SessionIds :
           GetConversationSummary(session_id) /\ UNCHANGED sent
    \/ \E req \in ConcurrentDoctorRequests :
           AddDoctor(req) /\ UNCHANGED <<tasks, chatVars>>

SpecChat == Init /\ [][NextChat]_vars

\* Short conversations while the clock runs
NextEviction ==
    \/ \E session_id \in SessionIds : \E completion \in Completions(session_id) :
           /\ NextContent(session_id) + 1 <= MaxTimedAppends
           /\ GetResponse(ChatText(NextContent(session_id)), session_id, completion)
           /\ sent' = [sent EXCEPT ![session_id] = @ + 2]
    \/ \E session_id \in SessionIds :
           GetConversationHistory(session_id) /\ UNCHANGED sent
    \/ \E session_id \in SessionIds :
           GetConversationSummary(session_id) /\ UNCHANGED sent
    \/ \E session_id \in SessionIds :
           ClearConversation(session_id) /\ UNCHANGED sent
    \/ Tick

SpecEviction == Init /\ [][NextEviction]_vars

(***************************************************************************)
(* chatbot_service.py: suggest_doctors_for_condition                       *)
(***************************************************************************)
\* Texts of the doctors of the suggestion clinic, as AddDoctor stores them
NameA == <<"A">>
NameB == <<"B">>
SpecialtyCardiacUpper == <<"C", "A", "R", "D", "I", "A", "C">>
SpecialtyGeneral == <<"G", "P">>
EmailA == <<"a", "@", "x", ".", "i", "o">>
EmailB == <<"b", "@", "x", ".", "i", "o">>
EmailC == <<"c", "@", "x", ".", "i", "o">>
EmailD == <<"d", "@", "x", ".", "i", "o">>
EmailE == <<"e", "@", "x", ".", "i", "o">>

\* Condition texts of POST /chatbot/suggest-doctors
ConditionHeart == <<"H", "e", "a", "r", "t">>
ConditionSkin == <<"d", "r", "y", " ", "s", "k", "i", "n">>
ConditionFever == <<"f", "e", "v", "e", "r">>
ConditionHeartSkin == <<"s", "k", "i", "n", ",", "h", "e", "a", "r", "t">>
Conditions == {ConditionHeart, ConditionSkin, ConditionFever, ConditionHeartSkin}

\* Specialties of the doctors of the suggestion clinic
Specialties ==
    {SpecialtyCardiology, SpecialtyDermatology, SpecialtyCardiacUpper,
     SpecialtyGeneral}

\* Python `sub in s` on texts
Contains(sub, s) ==
    \E i \in 1..(Len(s) - Len(sub) + 1) : SubSeq(s, i, i + Len(sub) - 1) = sub

\* specialty_keywords, in the order of the dict
SpecialtyKeywords ==
    <<
      [condition_key |-> <<"h", "e", "a", "r", "t">>,
       keywords |-> <<<<"c", "a", "r", "d", "i", "o", "l", "o", "g", "y">>,
                      <<"c", "a", "r", "d", "i", "a", "c">>>>],
      [condition_key |-> <<"s", "k", "i", "n">>,
       keywords |-> <<<<"d", "e", "r", "m", "a", "t", "o", "l", "o", "g", "y">>,
                      <<"d", "e", "r", "m", "a", "t", "o", "l", "o", "g", "i", "s", "t">>>>],
      [condition_key |-> <<"b", "o", "n", "e">>,
       keywords |-> <<<<"o", "r", "t", "h", "o", "p", "e", "d", "i", "c">>,
                      <<"o", "r", "t", "h", "o", "p", "e", "d", "i", "c", "s">>>>],
      [condition_key |-> <<"c", "h", "i", "l", "d">>,
       keywords |-> <<<<"p", "e", "d", "i", "a", "t", "r", "i", "c">>,
                      <<"p", "e", "d", "i", "a", "t", "r", "i", "c", "s">>>>],
      [condition_key |-> <<"b", "r", "a", "i", "n">>,
       keywords |-> <<<<"n", "e", "u", "r", "o", "l", "o", "g", "y">>,
                      <<"n", "e", "u", "r", "o", "l", "o", "g", "i", "s", "t">>>>],
      [condition_key |-> <<"e", "y", "e">>,
       keywords |-> <<<<"o", "p", "h", "t", "h", "a", "l", "m", "o", "l", "o", "g", "y">>,
                      <<"o", "p", "h", "t", "h", "a", "l", "m", "o", "l", "o", "g", "i", "s", "t">>>>],
      [condition_key |-> <<"m", "e", "n", "t", "a", "l">>,
       keywords |-> <<<<"p", "s", "y", "c", "h", "i", "a", "t", "r", "y">>,
                      <<"p", "s", "y", "c", "h", "o", "l", "o", "g", "y">>>>],
      [condition_key |-> <<"p", "r", "e", "g", "n", "a", "n", "c", "y">>,
       keywords |-> <<<<"o", "b", "s", "t", "e", "t", "r", "i", "c", "s">>,
                      <<"g", "y", "n", "e", "c", "o", "l", "o", "g", "y">>>>],
      [condition_key |-> <<"s", "u", "r", "g", "e", "r", "y">>,
       keywords |-> <<<<"s", "u", "r", "g", "e", "r", "y">>,
                      <<"s", "u", "r", "g", "i", "c", "a", "l">>>>]
    >>

\* `any(keyword in specialty_lower for keyword in keywords)`
AnyKeywordIn(keywords, specialty_lower) ==
    \E j \in DOMAIN keywords : Contains(keywords[j], specialty_lower)

\* Mutant: the score looks at the specialty only, not at the condition text
RelevanceScore_AnySpecialty(condition, specialty) ==
    IF \E k \in DOMAIN SpecialtyKeywords :
           AnyKeywordIn(SpecialtyKeywords[k].keywords, Lower(specialty))
    THEN 10
    ELSE 0

\* Calculate relevance score (lines 240-248)
RelevanceScore(condition, specialty) ==
    LET condition_lower == Lower(condition)
        specialty_lower == Lower(specialty)
    IN IF \E k \in DOMAIN SpecialtyKeywords :
              AnyKeywordIn(SpecialtyKeywords[k].keywords, specialty_lower)
       THEN IF \E k \in DOMAIN SpecialtyKeywords :
                   /\ Contains(SpecialtyKeywords[k].condition_key, condition_lower)
                   /\ AnyKeywordIn(SpecialtyKeywords[k].keywords, specialty_lower)
            THEN 10
            ELSE 0
       ELSE 0

\* The score of every condition text and specialty of the clinic
RelevanceTable ==
    [condition \in Conditions |->
        [specialty \in Specialties |-> RelevanceScore(condition, specialty)]]

\* doctor_info of one doctor
DoctorInfo(condition, doctor) ==
    [id |-> doctor.id,
     name |-> doctor.name,
     specialty |-> doctor.specialty,
     available_slots |-> SuggestAvailableSlots(doctor),
     relevance_score |-> RelevanceTable[condition][doctor.specialty]]

\* Mutant: doctors without a free slot are suggested too
Candidates_All(condition) ==
    [i \in DOMAIN doctors |-> DoctorInfo(condition, doctors[i])]

\* The suggestions list before the sort: doctors in query order, only those
\* with available_slots > 0
Candidates(condition) ==
    LET available == SelectSeq(doctors,
                         LAMBDA doctor : SuggestAvailableSlots(doctor) > 0)
    IN [i \in DOMAIN available |-> DoctorInfo(condition, available[i])]

\* The sort key compares as a tuple: (relevance_score, available_slots)
KeyLess(a, b) ==
    \/ a.relevance_score < b.relevance_score
    \/ /\ a.relevance_score = b.relevance_score
       /\ a.available_slots < b.available_slots

\* Mutant: an entry goes in front of the entries with an equal key
InsertDescending_BeforeEquals(sorted, x) ==
    LET smaller == {i \in DOMAIN sorted : ~KeyLess(x, sorted[i])}
        at == IF smaller = {} THEN Len(sorted) + 1
              ELSE CHOOSE i \in smaller : \A j \in smaller : i <= j
    IN SubSeq(sorted, 1, at - 1) \o <<x>> \o SubSeq(sorted, at, Len(sorted))

\* One entry put into a list sorted by descending key, behind the entries
\* with an equal key
InsertDescending(sorted, x) ==
    LET smaller == {i \in DOMAIN sorted : KeyLess(sorted[i], x)}
        at == IF smaller = {} THEN Len(sorted) + 1
              ELSE CHOOSE i \in smaller : \A j \in smaller : i <= j
    IN SubSeq(sorted, 1, at - 1) \o <<x>> \o SubSeq(sorted, at, Len(sorted))

\* list.sort(key=..., reverse=True): descending, and entries with equal keys
\* keep their original order
RECURSIVE SortDescending(_)
SortDescending(suggestions) ==
    IF suggestions = <<>> THEN <<>>
    ELSE LET sorted == SortDescending(SubSeq(suggestions, 1, Len(suggestions) - 1))
         IN InsertDescending(sorted, suggestions[Len(suggestions)])

\* `return suggestions[:3]`
SuggestionLimit == 3

\* HealthcareChatbot.suggest_doctors_for_condition(condition, db)
SuggestDoctorsForCondition(condition) ==
    /\ response' = Returned("suggest_doctors_for_condition",
           [condition |-> condition,
            suggestions |->
                LET candidates == Candidates(condition)
                    suggestions == SortDescending(candidates)
                IN SubSeq(suggestions, 1,
                          IF Len(suggestions) > SuggestionLimit
                          THEN SuggestionLimit ELSE Len(suggestions))])
    /\ UNCHANGED <<doctors, appointments, outbox, tasks, chatVars>>

StoredDoctors ==
    {[name |-> NameA, specialty |-> SpecialtyCardiology,
      email |-> EmailA, slots_per_day |-> 2],
     [name |-> NameB, specialty |-> SpecialtyCardiology,
      email |-> EmailB, slots_per_day |-> 2],
     [name |-> NameA, specialty |-> SpecialtyDermatology,
      email |-> EmailC, slots_per_day |-> 2],
     [name |-> NameB, specialty |-> SpecialtyCardiacUpper,
      email |-> EmailD, slots_per_day |-> 1],
     [name |-> NameA, specialty |-> SpecialtyGeneral,
      email |-> EmailE, slots_per_day |-> 2]}

\* Doctors registered before the suggestions are asked for
MaxRoster == 4

\* The registrations of MaxRoster different doctors, in every order
Rosters ==
    {roster \in [1..MaxRoster -> StoredDoctors] :
        \A i, j \in 1..MaxRoster : i # j => roster[i] # roster[j]}

DoctorsTable(roster) ==
    [i \in DOMAIN roster |->
        [id |-> i,
         name |-> roster[i].name,
         specialty |-> roster[i].specialty,
         email |-> roster[i].email,
         slots_per_day |-> roster[i].slots_per_day]]

\* The one booking asked of the suggestion clinic
SuggestBooking ==
    [patient_name |-> PatientA, appointment_date |-> DateJan05,
     time_slot |-> Time0900]

InitSuggest ==
    /\ \E roster \in Rosters : doctors = DoctorsTable(roster)
    /\ appointments = <<>>
    /\ response = NoResponse
    /\ outbox = <<>>
    /\ tasks = [t \in Tasks |-> IdleTask]
    /\ conversations = NoConversations
    /\ now = 0
    /\ submitted = <<>>
    /\ sent = [session_id \in SessionIds |-> 0]

\* Suggestions asked of a clinic whose doctors take bookings
NextSuggest ==
    \/ \E condition \in Conditions : SuggestDoctorsForCondition(condition)
    \/ \E doctor_id \in 1..MaxRoster :
           /\ doctor_id \in DOMAIN doctors
           /\ BookAppointment(doctor_id, SuggestBooking)
           /\ UNCHANGED <<tasks, chatVars>>
    \/ \E appointment_id \in AppointmentIds :
           /\ appointment_id \in DOMAIN appointments
           /\ CancelAppointment(appointment_id)
           /\ UNCHANGED <<tasks, chatVars>>

SpecSuggest == InitSuggest /\ [][NextSuggest]_vars

(***************************************************************************)
(* chatbot_service.py: get_response statement by statement, as the         *)
(* coroutines of concurrent POST /chatbot/message requests                 *)
(***************************************************************************)
\* Mutant: a failed call is made again before the fallback
Attempts_RetryOnFailure(completion) == IF completion.ok THEN 1 ELSE 2

\* Lines 151-156: the calls of self.client.chat.completions.create that one
\* get_response makes, whatever the client answers
Attempts(completion) == 1

\* Lines 117-156 of task t: sweep, doctors list, history, messages, and the
\* call of the completion client, which answers or raises
GetResponseCall(t, user_message, session_id, completion) ==
    LET cleaned == CleanOldConversations(conversations)
        doctors_list == GetDoctorsList
        looked_up == WithConversation(cleaned, session_id)
        conversation_history == looked_up[session_id].messages
        messages == BuildMessages(doctors_list, conversation_history, user_message)
    IN /\ tasks[t].pc = "idle"
       /\ EventLoopFree
       /\ conversations' = looked_up
       /\ submitted' = messages
       /\ tasks' = [tasks EXCEPT ![t] =
                        [pc |-> "called", session_id |-> session_id,
                         user_message |-> user_message,
                         completion |-> completion,
                         calls |-> Attempts(completion)]]
       /\ UNCHANGED <<doctors, appointments, response, outbox, now>>

\* Line 161 or line 176 of task t: the user message goes to the history
GetResponseAddUser(t) ==
    /\ tasks[t].pc = "called"
    /\ conversations' = AddMessage(conversations, tasks[t].session_id,
                                   "user", tasks[t].user_message)
    /\ tasks' = [tasks EXCEPT ![t].pc = "user_added"]
    /\ UNCHANGED <<doctors, appointments, response, outbox, now, submitted>>

\* Lines 162-170 or lines 177-185 of task t: the reply or error_msg goes to
\* the history and the call returns
GetResponseAddReply(t) ==
    LET session_id == tasks[t].session_id
        completion == tasks[t].completion
    IN /\ tasks[t].pc = "user_added"
       /\ conversations' = AddMessage(conversations, session_id, "assistant",
                                      IF completion.ok THEN completion.content
                                      ELSE ErrorMsg)
       /\ response' =
              IF completion.ok
              THEN Returned("get_response",
                       [success |-> TRUE,
                        response |-> completion.content,
                        session_id |-> session_id,
                        timestamp |-> now,
                        conversation_length |->
                            Len(conversations'[session_id].messages)])
              ELSE Returned("get_response",
                       [success |-> FALSE,
                        response |-> ErrorMsg,
                        error |-> completion.error,
                        session_id |-> session_id,
                        timestamp |-> now])
       /\ tasks' = [tasks EXCEPT ![t].pc = "idle"]
       /\ UNCHANGED <<doctors, appointments, outbox, now, submitted>>

\* Chat requests of two sessions on the event loop while the clock runs
NextChatConcurrent ==
    \/ \E t \in Tasks : \E session_id \in SessionIds :
       \E completion \in {Completed(ChatText(NextContent(session_id) + 1)),
                          Raised("APIConnectionError")} :
           /\ NextContent(session_id) + 1 <= MaxTimedAppends
           /\ GetResponseCall(t, ChatText(NextContent(session_id)), session_id,
                              completion)
           /\ sent' = [sent EXCEPT ![session_id] = @ + 2]
    \/ \E t \in Tasks : GetResponseAddUser(t) /\ UNCHANGED sent
    \/ \E t \in Tasks : GetResponseAddReply(t) /\ UNCHANGED sent
    \/ Tick

SpecChatConcurrent == Init /\ [][NextChatConcurrent]_vars

\* Booking requests that name one calendar slot by different texts, and
\* requests at and beyond the ends of the working day
SlotRequests ==
    [patient_name : {PatientA, PatientB},
     appointment_date : {DateJan05, DateJan5},
     time_slot : {Time0900, Time900, Time1700, Time1701, Time859, TimeNoColon}]
    \cup {[patient_name |-> TextBlank, appointment_date |-> DateJan05,
           time_slot |-> Time0900],
          [patient_name |-> PatientA, appointment_date |-> DateFeb30,
           time_slot |-> Time0900]}

\* Booking and cancelling with every text of a slot, while doctors register
NextSlots ==
    \/ \E req \in BookingDoctorRequests :
           AddDoctor(req) /\ UNCHANGED <<tasks, chatVars>>
    \/ \E doctor_id \in DoctorIds : \E req \in SlotRequests :
           BookAppointment(doctor_id, req) /\ UNCHANGED <<tasks, chatVars>>
    \/ \E appointment_id \in AppointmentIds :
           CancelAppointment(appointment_id) /\ UNCHANGED <<tasks, chatVars>>

SpecSlots == Init /\ [][NextSlots]_vars

\* Doctor registration over every request body
NextDoctors ==
    \/ \E req \in DoctorRequests :
           AddDoctor(req) /\ UNCHANGED <<tasks, chatVars>>
    \/ \E doctor_id \in DoctorIds :
           GetDoctor(doctor_id) /\ UNCHANGED <<tasks, chatVars>>

SpecDoctors == Init /\ [][NextDoctors]_vars

(***************************************************************************)
(* Properties                                                              *)
(***************************************************************************)
\* The non-cancelled appointments of the doctor with this id
ActiveOf(doctor_id) ==
    {i \in DOMAIN appointments :
        appointments[i].doctor_id = doctor_id /\ ~appointments[i].is_cancelled}

\* C1: for every doctor, the number of the doctor's non-cancelled
\* appointments is at most the doctor's slots_per_day.
C1_CapacityNeverExceeded ==
    \A d \in DOMAIN doctors :
        Cardinality(ActiveOf(doctors[d].id)) <= doctors[d].slots_per_day

\* A two-slot doctor is full and a further booking was refused for capacity
C1_Witness ==
    /\ response = HTTPException("book_appointment", 400,
                                "No available slots for this doctor")
    /\ \E d \in DOMAIN doctors :
           /\ doctors[d].slots_per_day = 2
           /\ Cardinality(ActiveOf(doctors[d].id)) = 2

\* C2: no two distinct non-cancelled appointments have the same doctor, the
\* same appointment_date and the same time_slot.
C2_NoDoctorDoubleBooking ==
    \A i, j \in DOMAIN appointments :
        (/\ i # j
         /\ ~appointments[i].is_cancelled
         /\ ~appointments[j].is_cancelled
         /\ appointments[i].doctor_id = appointments[j].doctor_id
         /\ appointments[i].appointment_date = appointments[j].appointment_date)
        => appointments[i].time_slot # appointments[j].time_slot

\* A booking was refused because the doctor's slot is taken: a doctor with a
\* free slot holds a non-cancelled appointment
C2_Witness ==
    /\ response = HTTPException("book_appointment", 400,
                                "Doctor already has an appointment at this time slot")
    /\ \E d \in DOMAIN doctors :
           /\ ActiveOf(doctors[d].id) # {}
           /\ Cardinality(ActiveOf(doctors[d].id)) < doctors[d].slots_per_day

\* C3: no two distinct non-cancelled appointments have the same patient_name,
\* the same appointment_date and the same time_slot, whichever doctors they
\* belong to.
C3_NoPatientDoubleBooking ==
    \A i, j \in DOMAIN appointments :
        (/\ i # j
         /\ ~appointments[i].is_cancelled
         /\ ~appointments[j].is_cancelled
         /\ appointments[i].patient_name = appointments[j].patient_name
         /\ appointments[i].appointment_date = appointments[j].appointment_date)
        => appointments[i].time_slot # appointments[j].time_slot

\* A booking was refused because the patient is taken at that time, while the
\* same patient holds non-cancelled appointments with two different doctors
C3_Witness ==
    /\ response = HTTPException("book_appointment", 400,
                                "Patient already has an appointment at this time slot")
    /\ \E i, j \in DOMAIN appointments :
           /\ ~appointments[i].is_cancelled
           /\ ~appointments[j].is_cancelled
           /\ appointments[i].patient_name = appointments[j].patient_name
           /\ appointments[i].doctor_id # appointments[j].doctor_id

\* The outcome the four checks of section 4.2 prescribe for a validated
\* booking request, stated on the store
C4_Expected(doctor_id, a) ==
    IF ~\E d \in DOMAIN doctors : doctors[d].id = doctor_id
    THEN <<404, "Doctor not found">>
    ELSE LET doctor == CHOOSE x \in Range(doctors) : x.id = doctor_id
         IN IF doctor.slots_per_day - Cardinality(ActiveOf(doctor_id)) <= 0
            THEN <<400, "No available slots for this doctor">>
            ELSE IF \E i \in DOMAIN appointments :
                       /\ ~appointments[i].is_cancelled
                       /\ appointments[i].patient_name = a.patient_name
                       /\ appointments[i].appointment_date = a.appointment_date
                       /\ appointments[i].time_slot = a.time_slot
            THEN <<400, "Patient already has an appointment at this time slot">>
            ELSE IF \E i \in ActiveOf(doctor_id) :
                       /\ appointments[i].appointment_date = a.appointment_date
                       /\ appointments[i].time_slot = a.time_slot
            THEN <<400, "Doctor already has an appointment at this time slot">>
            ELSE <<201, "created">>

\* What a response says, as <<status, detail>>
C4_Outcome(r) ==
    <<r.status, IF r.status \in {200, 201} THEN "created" ELSE r.body.detail>>

C4_Step ==
    response'.op = "book_appointment" =>
    \A req \in BookingRequests : \A doctor_id \in DoctorIds :
        (ValidAppointmentCreate(req) /\ BookAppointment(doctor_id, req))
        => /\ C4_Outcome(response') = C4_Expected(doctor_id, AppointmentCreate(req))
           /\ response'.status = 201 <=>
                  /\ Len(appointments') = Len(appointments) + 1
                  /\ ~appointments'[Len(appointments')].is_cancelled
           /\ response'.status # 201 => appointments' = appointments

\* C4: bookAppointment succeeds iff all four checks pass and otherwise returns
\* the error of the first failing check, in the order doctor exists, capacity,
\* patient double booking, doctor slot taken; cancelled appointments never
\* cause a conflict.
C4_BookingChecksInOrder == [][C4_Step]_vars

\* Capacity was reported for a full doctor who holds a non-cancelled
\* appointment (so requests for that slot also had a time conflict), and a
\* cancelled appointment is in the store
C4_Witness ==
    /\ response = HTTPException("book_appointment", 400,
                                "No available slots for this doctor")
    /\ \A d \in DOMAIN doctors :
           /\ ActiveOf(doctors[d].id) # {}
           /\ Cardinality(ActiveOf(doctors[d].id)) = doctors[d].slots_per_day
    /\ \E i \in DOMAIN appointments : appointments[i].is_cancelled

\* C5: the availability of every doctor is max(0, slots_per_day - number of
\* non-cancelled appointments), as the store computes it, as get_doctor
\* reports it and as the recommendation matcher computes it from the
\* doctor's appointment collection; a newly added doctor reports
\* available_slots = slots_per_day.
C5_AvailabilityFormula ==
    /\ \A d \in DOMAIN doctors :
           /\ GetDoctorAvailableSlots(doctors[d])
                  = Max(0, doctors[d].slots_per_day
                           - Cardinality(ActiveOf(doctors[d].id)))
           /\ SuggestAvailableSlots(doctors[d]) = GetDoctorAvailableSlots(doctors[d])
    /\ (response.op = "get_doctor" /\ response.status = 200)
           => \E d \in DOMAIN doctors :
                  /\ doctors[d].id = response.body.id
                  /\ response.body.available_slots
                         = Max(0, doctors[d].slots_per_day
                                  - Cardinality(ActiveOf(doctors[d].id)))
    /\ (response.op = "add_doctor" /\ response.status = 201)
           => response.body.available_slots = response.body.slots_per_day

\* get_doctor reported fewer slots than slots_per_day for a doctor who also
\* has a cancelled appointment
C5_Witness ==
    /\ response.op = "get_doctor"
    /\ response.status = 200
    /\ response.body.available_slots < response.body.slots_per_day
    /\ \E i \in DOMAIN appointments :
           /\ appointments[i].doctor_id = response.body.id
           /\ appointments[i].is_cancelled

C6_Step ==
    /\ Len(appointments') >= Len(appointments)
    /\ \A i \in DOMAIN appointments :
           /\ appointments'[i].id = appointments[i].id
           /\ appointments'[i].patient_name = appointments[i].patient_name
           /\ appointments'[i].doctor_id = appointments[i].doctor_id
           /\ appointments'[i].appointment_date = appointments[i].appointment_date
           /\ appointments'[i].time_slot = appointments[i].time_slot
           /\ appointments[i].is_cancelled => appointments'[i].is_cancelled
    /\ response'.op = "get_appointments"
           => {response'.body.items[k] : k \in DOMAIN response'.body.items}
                  = {[id |-> appointments'[i].id,
                      is_cancelled |-> appointments'[i].is_cancelled] :
                         i \in DOMAIN appointments'}

\* C6: cancellation is one-way and appointments are never deleted: a set
\* is_cancelled flag stays set, and every appointment ever booked stays in the
\* store and in the appointment listing.
C6_CancellationOneWay == [][C6_Step]_vars

\* The listing shows a cancelled appointment beside a live one
C6_Witness ==
    /\ response.op = "get_appointments"
    /\ \E k \in DOMAIN response.body.items : response.body.items[k].is_cancelled
    /\ \E k \in DOMAIN response.body.items : ~response.body.items[k].is_cancelled

C7_Step ==
    response'.op = "cancel_appointment" =>
    \A appointment_id \in AppointmentIds :
        (/\ \E i \in DOMAIN appointments :
                /\ appointments[i].id = appointment_id
                /\ appointments[i].is_cancelled
         /\ CancelAppointment(appointment_id))
        => /\ response' = HTTPException("cancel_appointment", 400,
                                        "Appointment is already cancelled")
           /\ appointments' = appointments
           /\ doctors' = doctors
           /\ outbox' = <<>>
           /\ \A d \in DOMAIN doctors :
                  GetDoctorAvailableSlots(doctors[d])'
                      = GetDoctorAvailableSlots(doctors[d])

\* C7: cancel_appointment on an already-cancelled appointment returns
\* AlreadyCancelled and changes nothing; every doctor's availability is the
\* same before and after.
C7_RecancelChangesNothing == [][C7_Step]_vars

\* A cancelled appointment was cancelled again, its doctor not being idle
C7_Witness ==
    /\ response = HTTPException("cancel_appointment", 400,
                                "Appointment is already cancelled")
    /\ \E i, j \in DOMAIN appointments :
           /\ appointments[i].is_cancelled
           /\ ~appointments[j].is_cancelled
           /\ appointments[i].doctor_id = appointments[j].doctor_id

\* The HTTPException of a booking refused for capacity
C8_CapacityExceeded ==
    HTTPException("book_appointment", 400, "No available slots for this doctor")

\* A doctor with one slot per day and one live appointment has no slot left
\* and refuses every booking for capacity
C8_OneSlotDoctorFull ==
    \A d \in DOMAIN doctors :
        (doctors[d].slots_per_day = 1 /\ Cardinality(ActiveOf(doctors[d].id)) = 1)
        => /\ GetDoctorAvailableSlots(doctors[d]) = 0
           /\ \A req \in BookingRequests :
                  ValidAppointmentCreate(req)
                  => BookingError(doctors[d].id, AppointmentCreate(req))
                         = C8_CapacityExceeded

C8_CancelStep ==
    \A appointment_id \in AppointmentIds :
        CancelAppointment(appointment_id)
        => LET appointment ==
                   CHOOSE a \in Range(appointments) : a.id = appointment_id
           IN /\ \A d \in DOMAIN doctors :
                     GetDoctorAvailableSlots(doctors[d])'
                         = GetDoctorAvailableSlots(doctors[d])
                           + (IF doctors[d].id = appointment.doctor_id
                              THEN 1 ELSE 0)
              /\ \A req \in BookingRequests :
                     ValidAppointmentCreate(req)
                     => LET a == AppointmentCreate(req)
                            error == BookingError(appointment.doctor_id, a)'
                        IN /\ error # C8_CapacityExceeded
                           /\ error # NoError
                                  => \/ ExistingAppointment(a)' # {}
                                     \/ DoctorAppointment(appointment.doctor_id, a)' # {}

C8_Step ==
    /\ (response'.op = "book_appointment" /\ response'.status = 201)
           => C8_OneSlotDoctorFull'
    /\ (response'.op = "cancel_appointment" /\ response'.status = 200)
           => C8_CancelStep

\* C8: a successful cancel_appointment frees exactly one slot of the owning
\* doctor and no slot of any other doctor, and the freed slot is seen by the
\* next availability or booking call; after a booking, a doctor with
\* slots_per_day = 1 and one live appointment has 0 available slots and
\* refuses every booking with CapacityExceeded.
C8_CancelFreesOneSlot == [][C8_Step]_vars

\* A doctor with one slot per day was booked again, at a different time,
\* after their first appointment was cancelled
C8_Witness ==
    /\ response.op = "book_appointment"
    /\ response.status = 201
    /\ \E d \in DOMAIN doctors :
           /\ doctors[d].id = response.body.doctor_id
           /\ doctors[d].slots_per_day = 1
    /\ \E i \in DOMAIN appointments :
           /\ appointments[i].doctor_id = response.body.doctor_id
           /\ appointments[i].is_cancelled
           /\ appointments[i].time_slot # response.body.time_slot

\* No two doctors share an email or a (name, specialty) pair
C9_Unique ==
    \A i, j \in DOMAIN doctors :
        i # j => /\ doctors[i].email # doctors[j].email
                 /\ ~(/\ doctors[i].name = doctors[j].name
                      /\ doctors[i].specialty = doctors[j].specialty)

C9_Step ==
    /\ C9_Unique'
    /\ \A req \in DoctorRequests :
           (ValidDoctorCreate(req) /\ AddDoctor(req))
           => LET doctor == DoctorCreate(req)
              IN IF \E i \in DOMAIN doctors :
                        /\ doctors[i].name = doctor.name
                        /\ doctors[i].specialty = doctor.specialty
                 THEN /\ response' =
                             HTTPException("add_doctor", 400,
                                 "Doctor with this name and specialty already exists")
                      /\ doctors' = doctors
                 ELSE IF \E i \in DOMAIN doctors : doctors[i].email = doctor.email
                 THEN /\ response' =
                             HTTPException("add_doctor", 400,
                                 "Doctor with this email already exists")
                      /\ doctors' = doctors
                 ELSE /\ response'.status = 201
                      /\ Len(doctors') = Len(doctors) + 1
                      /\ doctors'[Len(doctors')].name = doctor.name
                      /\ doctors'[Len(doctors')].specialty = doctor.specialty
                      /\ doctors'[Len(doctors')].email = doctor.email

\* C9: add_doctor is rejected when an existing doctor has the same
\* (name, specialty) or the same email, the (name, specialty) check first, so
\* no two doctors ever share an email or a (name, specialty) pair.
C9_DuplicateDoctorRejected == [][C9_Step]_vars

\* A request was refused for name and specialty while two doctors of the same
\* name and different specialties, hence different emails, are registered
C9_Witness ==
    /\ response = HTTPException("add_doctor", 400,
                      "Doctor with this name and specialty already exists")
    /\ \E i, j \in DOMAIN doctors :
           /\ doctors[i].name = doctors[j].name
           /\ doctors[i].specialty # doctors[j].specialty

\* C10: when the booked, cancelled or welcome notification fails or raises,
\* the request still answers with its success result and the committed change
\* is in the store.
C10_NotificationFireAndForget ==
    (outbox # <<>> /\ outbox[1].outcome \in {"failed", "raised"})
    => LET n == outbox[1]
       IN /\ n.kind = "booked"
                => /\ response.op = "book_appointment"
                   /\ response.status = 201
                   /\ response.body.id = n.id
                   /\ \E i \in DOMAIN appointments :
                          /\ appointments[i].id = n.id
                          /\ appointments[i].patient_name = n.patient_name
                          /\ ~appointments[i].is_cancelled
          /\ n.kind = "cancelled"
                => /\ response.op = "cancel_appointment"
                   /\ response.status = 200
                   /\ \E i \in DOMAIN appointments :
                          /\ appointments[i].id = n.id
                          /\ appointments[i].is_cancelled
          /\ n.kind = "welcome"
                => /\ response.op = "add_doctor"
                   /\ response.status = 201
                   /\ \E d \in DOMAIN doctors :
                          /\ doctors[d].id = n.id
                          /\ doctors[d].email = n.doctor_email

\* The notifier raised on a booking that was answered 201
C10_Witness ==
    /\ outbox # <<>>
    /\ outbox[1].kind = "booked"
    /\ outbox[1].outcome = "raised"
    /\ response.status = 201

\* Two coroutines both answered 201 and neither appointment was cancelled
C11_BothSucceeded(t, u) ==
    /\ t # u
    /\ tasks[t].pc = "done" /\ tasks[t].result.status = 201
    /\ tasks[u].pc = "done" /\ tasks[u].result.status = 201
    /\ \A i \in DOMAIN appointments :
           appointments[i].id \in {tasks[t].result.body.id, tasks[u].result.body.id}
           => ~appointments[i].is_cancelled

\* C11: the checks and the insert of one booking are one atomic step with
\* respect to other bookings: whatever the interleaving of concurrent
\* book_appointment requests, capacity and the two double-booking rules hold,
\* and of two requests for the same (doctor, date, time), the same
\* (patient, date, time) or the last slot of a doctor at most one succeeds.
C11_BookingAtomic ==
    /\ C1_CapacityNeverExceeded
    /\ C2_NoDoctorDoubleBooking
    /\ C3_NoPatientDoubleBooking
    /\ \A t, u \in Tasks :
           C11_BothSucceeded(t, u)
           => LET a == tasks[t].result.body
                  b == tasks[u].result.body
              IN /\ a.id # b.id
                 /\ (a.appointment_date = b.appointment_date
                     /\ a.time_slot = b.time_slot)
                    => (a.doctor_id # b.doctor_id
                        /\ a.patient_name # b.patient_name)
                 /\ \A d \in DOMAIN doctors :
                        (a.doctor_id = doctors[d].id /\ b.doctor_id = doctors[d].id)
                        => doctors[d].slots_per_day >= 2

\* Two requests were in flight for the last slot of the same doctor: one was
\* answered 201 and the other was refused for capacity
C11_Witness ==
    \E t, u \in Tasks :
        /\ tasks[t].pc = "done" /\ tasks[t].result.status = 201
        /\ tasks[u].pc = "done"
        /\ tasks[u].result = HTTPException("book_appointment", 400,
                                 "No available slots for this doctor")
        /\ tasks[u].doctor_id = tasks[t].doctor_id
        /\ tasks[u].appointment.time_slot # tasks[t].appointment.time_slot
        /\ \A i \in DOMAIN appointments : ~appointments[i].is_cancelled

\* C12: every session's message history holds at most 20 entries.
C12_HistoryAtMost20 ==
    \A session_id \in DOMAIN conversations :
        Len(conversations[session_id].messages) <= 20

\* A session holds 20 messages after more than 20 were appended to it
C12_Witness ==
    \E session_id \in DOMAIN conversations :
        LET messages == conversations[session_id].messages
        IN /\ Len(messages) = 20
           /\ messages[Len(messages)].content > 20

\* C13: the history is a FIFO window: after n appends to a session, numbered
\* 1..n, the history is exactly the appends n - min(n, 20) + 1 .. n in order;
\* after 25 appends it is 6..25.
C13_FifoWindow ==
    \A session_id \in DOMAIN conversations :
        LET messages == conversations[session_id].messages
            n == sent[session_id]
            k == IF n < 20 THEN n ELSE 20
        IN /\ Len(messages) = k
           /\ \A i \in 1..k : messages[i].content = n - k + i
           /\ n = 25 => (messages[1].content = 6 /\ messages[20].content = 25)

\* 25 messages were appended to a session: its history runs from 6 to 25
C13_Witness ==
    \E session_id \in DOMAIN conversations :
        LET messages == conversations[session_id].messages
        IN /\ Len(messages) = 20
           /\ messages[1].content = 6
           /\ messages[20].content = 25
           /\ messages[20].role = "user"

\* C14: looking up the history of a session id that has no session returns
\* an empty sequence and leaves the session table as it was: the lookup
\* creates no session record.
C14_LookupCreatesNothing ==
    [][\A session_id \in SessionIds :
           (session_id \notin DOMAIN conversations
            /\ GetConversationHistory(session_id))
           => /\ response'.body.messages = <<>>
              /\ conversations' = conversations]_vars

\* The last activity of the session is older than the eviction threshold
Expired(session_id) ==
    /\ session_id \in DOMAIN conversations
    /\ conversations[session_id].last_activity < now - EvictionHours

\* C15: a session whose last activity is older than 24 hours is absent from
\* every later lookup: a conversation lookup reports it as not existing, a
\* history lookup returns none of its messages, and the prompt of a later
\* respond for the session id holds the system message and the new user
\* message only.
C15_ExpiredIsAbsent ==
    [][\A session_id \in SessionIds :
           Expired(session_id)
           => /\ GetConversationSummary(session_id)
                 => response'.body.exists = FALSE
              /\ GetConversationHistory(session_id)
                 => response'.body.messages = <<>>
              /\ sent'[session_id] # sent[session_id]
                 => /\ Len(submitted') = 2
                    /\ \A i \in DOMAIN conversations[session_id].messages :
                           \A j \in DOMAIN conversations'[session_id].messages :
                               conversations[session_id].messages[i]
                               # conversations'[session_id].messages[j]]_vars

\* The respond half of C15 alone: a respond for an expired session builds
\* its prompt from the system message and the new user message
C15_RespondForgetsExpired ==
    [][\A session_id \in SessionIds :
           (Expired(session_id) /\ sent'[session_id] # sent[session_id])
           => /\ Len(submitted') = 2
              /\ Len(conversations'[session_id].messages) = 2]_vars

\* A respond step of the session that succeeded
C16_Step ==
    \A session_id \in SessionIds :
        (sent'[session_id] # sent[session_id] /\ response'.body.success)
        => LET before == MessagesOf(conversations, session_id)
               after == conversations'[session_id].messages
               n == Len(after)
           IN /\ n = IF Len(before) + 2 > 20 THEN 20 ELSE Len(before) + 2
              /\ SubSeq(after, 1, n - 2) = Last(before, n - 2)
              /\ after[n - 1].role = "user"
              /\ after[n - 1].content = ChatText(sent[session_id] + 1)
              /\ after[n].role = "assistant"
              /\ after[n].content = ChatText(sent[session_id] + 2)
              /\ response'.body.response = after[n].content
              /\ response'.body.session_id = session_id
              /\ response'.body.conversation_length = n

\* C16: when the completion client succeeds, respond appends exactly two
\* entries to the history of the session, the user message and then the
\* reply, and returns success = true with the reply text, the same session
\* id and a conversation length equal to the length of the history after the
\* two appends, never more than 20.
C16_SuccessAppendsTwo == [][C16_Step]_vars

\* A successful respond on a full history: the length reported is 20
C16_Witness ==
    /\ response.op = "get_response"
    /\ response.body.success
    /\ response.body.conversation_length = 20
    /\ sent[response.body.session_id] >= 22
    /\ conversations[response.body.session_id].messages[20].content
           = response.body.response

\* A respond step of the session whose completion client raised
C17_Step ==
    \A session_id \in SessionIds :
        (sent'[session_id] # sent[session_id] /\ ~response'.body.success)
        => /\ response'.op = "get_response"
           /\ session_id \in DOMAIN conversations'
           /\ LET before == MessagesOf(conversations, session_id)
                  after == conversations'[session_id].messages
                  n == Len(after)
              IN /\ n = IF Len(before) + 2 > 20 THEN 20 ELSE Len(before) + 2
                 /\ SubSeq(after, 1, n - 2) = Last(before, n - 2)
                 /\ after[n - 1].role = "user"
                 /\ after[n - 1].content = ChatText(sent[session_id] + 1)
                 /\ after[n].role = "assistant"
                 /\ after[n].content = ErrorMsg
                 /\ response'.body.response = after[n].content
                 /\ response'.body.error = "APIConnectionError"
                 /\ response'.body.session_id = session_id

\* C17: when the completion client fails, respond returns instead of raising:
\* it appends the user message and then the fixed fallback reply to the
\* history of the session, creating the session if absent, and returns
\* success = false with the fallback text as the response and the error
\* detail in a separate field, so the last assistant entry of the history is
\* the response text the user received.
C17_FailureRecordsFallback == [][C17_Step]_vars

\* The first request of a session failed: the session exists and holds the
\* user message and the fallback
C17_Witness ==
    /\ response.op = "get_response"
    /\ ~response.body.success
    /\ response.body.response = ErrorMsg
    /\ sent[response.body.session_id] = 2
    /\ Len(conversations[response.body.session_id].messages) = 2
    /\ conversations[response.body.session_id].messages[2].content = ErrorMsg

\* A respond step of the session, successful or not: the list submitted to
\* the completion client
C18_Step ==
    \A session_id \in SessionIds :
        sent'[session_id] # sent[session_id]
        => LET history == MessagesOf(conversations, session_id)
               n == Len(history)
               k == IF n < 10 THEN n ELSE 10
               user_message == ChatText(sent[session_id] + 1)
           IN /\ Len(submitted') = k + 2
              /\ Len(submitted') <= 12
              /\ submitted'[1] = [role |-> "system",
                                  content |-> GetSystemPrompt(GetDoctorsList)]
              /\ \A i \in 2..Len(submitted') : submitted'[i].role # "system"
              /\ \A i \in 1..k :
                     /\ submitted'[1 + i].role = history[n - k + i].role
                     /\ submitted'[1 + i].content = history[n - k + i].content
              /\ submitted'[k + 2] = [role |-> "user", content |-> user_message]
              /\ \A i \in 1..n : history[i].content # user_message

\* C18: the list respond submits to the completion client is one system
\* message built from the doctors-availability text of this call, then the
\* last min(10, n) entries of the n-entry history in history order, then the
\* new user message as the last element; it never has more than 12 messages,
\* and the new user message is not part of the history the prompt is built
\* from.
C18_PromptWindow == [][C18_Step]_vars

\* A prompt of 12 messages built from a full history while a doctor is
\* registered: the window starts at the 11th entry of the history
C18_Witness ==
    /\ response.op = "get_response"
    /\ Len(submitted) = 12
    /\ doctors # <<>>
    /\ submitted[1].content.doctors_list.doctors_info # <<>>
    /\ sent[response.body.session_id] >= 24

\* A suggestion step: the result against the doctors it was computed from
C19_Step ==
    response'.op = "suggest_doctors_for_condition"
    => LET result == response'.body.suggestions
           condition == response'.body.condition
           info == [i \in DOMAIN doctors |->
                       [relevance_score |->
                            RelevanceTable[condition][doctors[i].specialty],
                        available_slots |-> SuggestAvailableSlots(doctors[i])]]
           eligible == {i \in DOMAIN doctors : info[i].available_slots > 0}
           at == [k \in DOMAIN result |->
                     CHOOSE i \in DOMAIN doctors : doctors[i].id = result[k].id]
           returned == {at[k] : k \in DOMAIN result}
       IN /\ Len(result) <= 3
          /\ Len(result) = IF Cardinality(eligible) > 3 THEN 3
                           ELSE Cardinality(eligible)
          /\ \A k \in DOMAIN result :
                 /\ \E i \in eligible : doctors[i].id = result[k].id
                 /\ result[k].available_slots > 0
                 /\ result[k].available_slots = info[at[k]].available_slots
                 /\ result[k].relevance_score = info[at[k]].relevance_score
          /\ \A k, l \in DOMAIN result :
                 k < l => /\ ~KeyLess(result[k], result[l])
                          /\ at[k] # at[l]
                          /\ ~KeyLess(result[l], result[k]) => at[k] < at[l]
          /\ \A i \in eligible \ returned : \A k \in DOMAIN result :
                 ~KeyLess(result[k], info[i])

\* C19: suggest returns at most 3 entries, all of them doctors with
\* available slots > 0, ordered by relevance score descending and then
\* available slots descending; entries equal on both keys keep the order of
\* the doctor list, and no candidate left out of the result ranks strictly
\* above a returned one.
C19_TopThreeStable == [][C19_Step]_vars

\* Three of four candidates were returned, two of them equal on both keys
\* and in the order of the doctor list, while another doctor has no slot left
C19_Witness ==
    /\ response.op = "suggest_doctors_for_condition"
    /\ LET result == response.body.suggestions
       IN /\ Len(result) = 3
          /\ \E k \in 1..2 :
                 /\ result[k].relevance_score = result[k + 1].relevance_score
                 /\ result[k].available_slots = result[k + 1].available_slots
                 /\ result[k].id < result[k + 1].id
          /\ \E i \in DOMAIN doctors :
                 /\ SuggestAvailableSlots(doctors[i]) > 0
                 /\ \A k \in 1..3 : result[k].id # doctors[i].id
          /\ result[1].relevance_score = 10
          /\ result[3].relevance_score = 0

\* Some condition keyword of the table occurs in the lower-cased condition
\* text and one of its specialty substrings occurs in the lower-cased
\* specialty
C20_Matches(condition, specialty) ==
    \E k \in DOMAIN SpecialtyKeywords :
        /\ Contains(SpecialtyKeywords[k].condition_key, Lower(condition))
        /\ \E j \in DOMAIN SpecialtyKeywords[k].keywords :
               Contains(SpecialtyKeywords[k].keywords[j], Lower(specialty))

C20_MatchTable ==
    [condition \in Conditions |->
        [specialty \in Specialties |-> C20_Matches(condition, specialty)]]

\* A suggestion step: the scores of the result
C20_Step ==
    response'.op = "suggest_doctors_for_condition"
    => LET result == response'.body.suggestions
           condition == response'.body.condition
       IN /\ \A k \in DOMAIN result :
                 /\ result[k].relevance_score \in {0, 10}
                 /\ result[k].relevance_score = 10
                    <=> C20_MatchTable[condition][result[k].specialty]
          /\ Contains(<<"h", "e", "a", "r", "t">>, Lower(condition))
             => \A k, l \in DOMAIN result :
                    /\ result[k].specialty = SpecialtyCardiology
                       => result[k].relevance_score = 10
                    /\ (/\ result[k].specialty = SpecialtyCardiology
                        /\ result[l].specialty = SpecialtyDermatology
                        /\ ~Contains(<<"s", "k", "i", "n">>, Lower(condition)))
                       => /\ result[l].relevance_score = 0
                          /\ k < l

\* C20: the relevance score of a candidate is 10 exactly when some condition
\* keyword of the fixed table occurs in the lower-cased condition text and
\* one of that keyword's specialty substrings occurs in the doctor's
\* lower-cased specialty, and 0 otherwise; for a condition text containing
\* "heart", a Cardiology doctor with free slots scores 10 and is ranked above
\* a Dermatology doctor scoring 0.
C20_RelevanceScore == [][C20_Step]_vars

\* "Heart" was asked for: a Cardiology doctor with score 10 stands above a
\* Dermatology doctor with score 0
C20_Witness ==
    /\ response.op = "suggest_doctors_for_condition"
    /\ response.body.condition = ConditionHeart
    /\ \E k, l \in DOMAIN response.body.suggestions :
           /\ k < l
           /\ response.body.suggestions[k].specialty = SpecialtyCardiology
           /\ response.body.suggestions[k].relevance_score = 10
           /\ response.body.suggestions[l].specialty = SpecialtyDermatology
           /\ response.body.suggestions[l].relevance_score = 0

\* The replies the client can have produced for a user message: the reply of
\* its own call, or the fallback
C21_Replies(user_content) ==
    {ChatText(n + 1) : n \in {k \in 1..(MaxTimedAppends + 1) :
                                  ChatText(k) = user_content}}
    \cup {ErrorMsg}

\* Every user message of a history is directly followed by its reply, or is
\* the last entry while its call is about to append the reply; every reply
\* directly follows a user message
C21_Paired ==
    \A session_id \in DOMAIN conversations :
        LET messages == conversations[session_id].messages
        IN \A i \in DOMAIN messages :
               IF messages[i].role = "user"
               THEN IF i < Len(messages)
                    THEN /\ messages[i + 1].role = "assistant"
                         /\ messages[i + 1].content
                                \in C21_Replies(messages[i].content)
                    ELSE \E t \in Tasks :
                             /\ tasks[t].pc = "user_added"
                             /\ tasks[t].session_id = session_id
                             /\ tasks[t].user_message = messages[i].content
               ELSE /\ i > 1
                    /\ messages[i - 1].role = "user"

\* A call that returns leaves its user message and its reply as the last two
\* entries, behind every entry the history had
C21_Step ==
    /\ C21_Paired'
    /\ \A t \in Tasks :
           (tasks[t].pc = "user_added" /\ tasks'[t].pc = "idle")
           => LET before == conversations[tasks[t].session_id].messages
                  after == conversations'[tasks[t].session_id].messages
                  n == Len(after)
              IN /\ n = Len(before) + 1
                 /\ SubSeq(after, 1, n - 1) = before
                 /\ after[n - 1].role = "user"
                 /\ after[n - 1].content = tasks[t].user_message
                 /\ after[n].role = "assistant"
                 /\ after[n].content = response'.body.response

\* C21: concurrent respond calls for the same session id are serialized:
\* whatever the overlap of two calls, the history keeps each user message
\* immediately followed by the reply produced for it, with no entry of the
\* other call between them and no entry lost.
C21_SameSessionSerialized == [][C21_Step]_vars

\* Two coroutines answered requests of the same session, which holds the four
\* entries of the two calls
C21_Witness ==
    /\ \A t \in Tasks :
           /\ tasks[t].pc = "idle"
           /\ "session_id" \in DOMAIN tasks[t]
           /\ tasks[t].session_id = "s1"
    /\ tasks[1].user_message # tasks[2].user_message
    /\ "s1" \in DOMAIN conversations
    /\ Len(conversations["s1"].messages) = 4

\* A step of a call for one session, and another session that is not expired
C22_Step ==
    \A t \in Tasks : \A other \in SessionIds :
        (/\ tasks'[t] # tasks[t]
         /\ tasks'[t].session_id # other
         /\ other \in DOMAIN conversations
         /\ ~Expired(other))
        => /\ other \in DOMAIN conversations'
           /\ conversations'[other] = conversations[other]

\* C22: sessions are isolated from each other: an append or a respond for
\* one session id, alone or among concurrent requests for another session
\* id, adds, removes or reorders no entry of the other session's history,
\* provided the other session's last activity is within the eviction
\* threshold.
C22_SessionsIsolated == [][C22_Step]_vars

\* Coroutines served both sessions after time had passed, the last of them
\* creating session s1 beside the four entries of s2
C22_Witness ==
    /\ DOMAIN conversations = SessionIds
    /\ now >= EvictionHours \div 2
    /\ Len(conversations["s2"].messages) = 4
    /\ Len(conversations["s1"].messages) = 2
    /\ conversations["s1"].created_at > conversations["s2"].last_activity
    /\ response.op = "get_response"
    /\ response.body.session_id = "s1"
    /\ ~Expired("s2")

\* The steps of one call: the client is invoked in the first step only, and
\* a call whose client raised goes on to append the user message and the
\* fallback
C23_Step ==
    /\ submitted' # submitted
       => \E t \in Tasks : tasks[t].pc = "idle" /\ tasks'[t].pc = "called"
    /\ \A t \in Tasks :
           /\ (tasks[t].pc = "idle" /\ tasks'[t].pc = "called")
              => tasks'[t].calls = 1
           /\ tasks[t].pc = "called" /\ tasks'[t] # tasks[t]
              => /\ tasks'[t].pc = "user_added"
                 /\ tasks'[t].calls = 1
                 /\ submitted' = submitted
           /\ tasks[t].pc = "user_added" /\ tasks'[t] # tasks[t]
              => /\ tasks'[t].pc = "idle"
                 /\ tasks'[t].calls = 1
                 /\ submitted' = submitted
                 /\ response'.body.success = tasks[t].completion.ok
                 /\ ~tasks[t].completion.ok
                    => response'.body.response = ErrorMsg

C24_InHours(v) ==
    /\ strptime_time(v) # -1
    /\ 9 * 60 <= strptime_time(v)
    /\ strptime_time(v) <= 17 * 60

\* Requests whose time_slot is malformed or outside the working day
C24_BadTimeRequests == {req \in SlotRequests : ~C24_InHours(req.time_slot)}

\* Requests at 09:00 or at 17:00 whose other fields are well-formed
C24_EdgeRequests ==
    {req \in SlotRequests :
        /\ req.time_slot \in {Time0900, Time1700}
        /\ req.patient_name \in {PatientA, PatientB}
        /\ req.appointment_date \in {DateJan05, DateJan5}}

\* The validators refuse every request with a bad time, and pass the
\* requests at the ends of the working day
C24_Validated ==
    /\ \A req \in C24_BadTimeRequests : ~ValidAppointmentCreate(req)
    /\ \A req \in C24_EdgeRequests : ValidAppointmentCreate(req)

\* A booking step: a refused request body is answered 422 and stores
\* nothing, and what is stored lies within the working day
C24_Step ==
    /\ C24_Validated
    /\ response'.op = "book_appointment"
       => /\ response'.status = 422 => appointments' = appointments
          /\ response'.status = 201
             => /\ Len(appointments') = Len(appointments) + 1
                /\ response'.body.time_slot
                       = appointments'[Len(appointments')].time_slot
                /\ C24_InHours(response'.body.time_slot)
          /\ \A i \in DOMAIN appointments' :
                 C24_InHours(appointments'[i].time_slot)

\* C24: a booking request whose time_slot is malformed or outside 09:00 to
\* 17:00 is rejected with a validation error and creates no appointment,
\* while 09:00 and 17:00 themselves are accepted; hence every stored
\* appointment has a time slot within 09:00 to 17:00.
C24_WorkingHours == [][C24_Step]_vars

\* Appointments at 09:00 and at 17:00 are stored, and a further request
\* was answered with a validation error
C24_Witness ==
    /\ response.op = "book_appointment"
    /\ response.status = 422
    /\ \E i, j \in DOMAIN appointments :
           /\ appointments[i].time_slot = Time0900
           /\ appointments[j].time_slot = Time1700

\* A step whose request was refused: the tables and every availability are
\* what they were
C26_Step ==
    (/\ response'.op \in {"add_doctor", "book_appointment", "cancel_appointment"}
     /\ response'.status >= 400)
    => /\ doctors' = doctors
       /\ appointments' = appointments
       /\ outbox' = <<>>
       /\ \A i \in DOMAIN doctors :
              GetDoctorAvailableSlots(doctors[i])'
                  = GetDoctorAvailableSlots(doctors[i])

\* C26: every rejected request leaves the store unchanged: a refused
\* booking adds no appointment, a refused cancellation changes no flag, a
\* refused registration adds no doctor; the doctors, the appointments and
\* every availability are identical before and after.
C26_RejectionChangesNothing == [][C26_Step]_vars

\* A cancellation was refused while the store holds a live and a cancelled
\* appointment
C26_Witness ==
    /\ response.op = "cancel_appointment"
    /\ response.status >= 400
    /\ \E i, j \in DOMAIN appointments :
           appointments[i].is_cancelled /\ ~appointments[j].is_cancelled

\* Two stored appointments denote the same calendar date and time of day
C27_SameSlot(a, b) ==
    /\ strptime_date(a.appointment_date) = strptime_date(b.appointment_date)
    /\ strptime_time(a.time_slot) = strptime_time(b.time_slot)

\* C27: slot identity is by calendar date and time of day, not by the
\* submitted text: while an appointment is non-cancelled, a booking for the
\* same doctor, or for the same patient, whose date and time texts denote the
\* same date and time of day is refused, so no two non-cancelled appointments
\* of one doctor or of one patient denote the same slot.
C27_SlotByCalendar ==
    \A i, j \in DOMAIN appointments :
        (/\ i # j
         /\ ~appointments[i].is_cancelled
         /\ ~appointments[j].is_cancelled
         /\ \/ appointments[i].doctor_id = appointments[j].doctor_id
            \/ appointments[i].patient_name = appointments[j].patient_name)
        => ~C27_SameSlot(appointments[i], appointments[j])

\* C28: after any sequence of completed respond calls on a session, each
\* ending in success or in the fallback, the history has even length and
\* alternates user, assistant, user, assistant from a user entry on; this
\* also holds once the 20-entry cap drops the oldest entries.
C28_Alternates ==
    \A session_id \in DOMAIN conversations :
        LET messages == conversations[session_id].messages
        IN /\ Len(messages) % 2 = 0
           /\ \A i \in DOMAIN messages :
                  messages[i].role = IF i % 2 = 1 THEN "user" ELSE "assistant"

\* The cap has dropped entries of a session that also saw a fallback: the
\* 20 entries left start with a user entry
C28_Witness ==
    \E session_id \in DOMAIN conversations :
        LET messages == conversations[session_id].messages
        IN /\ Len(messages) = 20
           /\ sent[session_id] >= 24
           /\ messages[1].role = "user"
           /\ messages[1].content = ChatText(sent[session_id] - 19)
           /\ \E i \in DOMAIN messages : messages[i].content = ErrorMsg

\* The notification carries the details of the stored appointment and of its
\* doctor
C29_Carries(n, a) ==
    /\ n.id = a.id
    /\ n.patient_name = a.patient_name
    /\ n.appointment_date = a.appointment_date
    /\ n.time_slot = a.time_slot
    /\ \E d \in DOMAIN doctors :
           /\ doctors[d].id = a.doctor_id
           /\ n.doctor_email = doctors[d].email
           /\ n.doctor_name = doctors[d].name

\* A booking or cancelling step and what it handed to the mailer
C29_Step ==
    /\ response'.op = "book_appointment"
       => IF response'.status = 201
          THEN /\ Len(outbox') = 1
               /\ outbox'[1].kind = "booked"
               /\ outbox'[1].id = response'.body.id
               /\ Len(appointments') = Len(appointments) + 1
               /\ C29_Carries(outbox'[1], appointments'[Len(appointments')])
               /\ ~appointments'[Len(appointments')].is_cancelled
          ELSE outbox' = <<>>
    /\ response'.op = "cancel_appointment"
       => IF response'.status = 200
          THEN /\ Len(outbox') = 1
               /\ outbox'[1].kind = "cancelled"
               /\ \E i \in DOMAIN appointments :
                      /\ ~appointments[i].is_cancelled
                      /\ appointments'[i].is_cancelled
                      /\ C29_Carries(outbox'[1], appointments'[i])
          ELSE outbox' = <<>>

\* C29: exactly one booked notification is emitted for each successful
\* booking and exactly one cancelled notification for each successful
\* cancellation, with the change already in the store and carrying the
\* details of that appointment and its doctor; a rejected booking or
\* cancellation emits no notification.
C29_OneNotification == [][C29_Step]_vars

\* A cancellation was notified although the mailer raised, after the booking
\* of another appointment
C29_Witness ==
    /\ response.op = "cancel_appointment"
    /\ response.status = 200
    /\ Len(outbox) = 1
    /\ outbox[1].kind = "cancelled"
    /\ outbox[1].outcome = "raised"
    /\ Len(appointments) = 2
    /\ \E i \in DOMAIN appointments :
           appointments[i].id = outbox[1].id /\ appointments[i].is_cancelled

\* A respond step of one session, and what its sweep did to every session
C30_Step ==
    \A session_id \in SessionIds :
        sent'[session_id] # sent[session_id]
        => \A other \in DOMAIN conversations :
               IF conversations[other].last_activity < now - EvictionHours
               THEN IF other = session_id
                    THEN /\ conversations'[other].created_at = now
                         /\ Len(conversations'[other].messages) = 2
                    ELSE other \notin DOMAIN conversations'
               ELSE /\ other \in DOMAIN conversations'
                    /\ IF other = session_id
                       THEN LET before == conversations[other].messages
                                after == conversations'[other].messages
                            IN /\ Len(after) = Len(before) + 2
                               /\ SubSeq(after, 1, Len(before)) = before
                               /\ conversations'[other].created_at
                                      = conversations[other].created_at
                       ELSE conversations'[other] = conversations[other]

\* C30: the sweep removes a session only when its last activity is strictly
\* older than the threshold: a session active within the last 24 hours is
\* never removed by the sweep of any respond call, for its own or another
\* session id, and keeps its full history, and a sweep removes every session
\* older than the threshold in the same pass.
C30_SweepStrict == [][C30_Step]_vars

\* A respond for s1 swept while the last activity of s2 was exactly 24 hours
\* old: s2 is still there with its messages
C30_Witness ==
    /\ response.op = "get_response"
    /\ response.body.session_id = "s1"
    /\ response.body.timestamp = now
    /\ "s2" \in DOMAIN conversations
    /\ conversations["s2"].last_activity = now - EvictionHours
    /\ Len(conversations["s2"].messages) >= 2
    /\ conversations["s1"].last_activity = now

====
